---- MODULE Spec2Model ----
(***************************************************************************)
(* State-machine model of the emulator core of ultranesv0.py: Cartridge,   *)
(* CPU6502, Bus, PPU and SamsoftNES.  Numbers the source writes in hex are *)
(* written in decimal here, with the hex value in a comment.               *)
(***************************************************************************)
EXTENDS Integers, Sequences, FiniteSets, TLC

VARIABLES
    cart,           \* SamsoftNES.cart: None or a Cartridge record
    bus,            \* SamsoftNES.bus: None or a Bus record
    cpu,            \* SamsoftNES.cpu: None or a CPU6502 record
    ppu,            \* SamsoftNES.ppu: the PPU record
    tick,           \* SamsoftNES.tick
    raised,         \* name of the exception that escaped the last call, or "none"
    ret,            \* value returned by the last call
    op,             \* history: [name, arg] of the last call
    pre,            \* history: A, X, Y and halted of the CPU when the last call began
    hist,           \* history: counters of the calls made
    gui             \* None, or the frontend object that drives the console and
                    \* its emulation threads

vars == <<cart, bus, cpu, ppu, tick, raised, ret, op, pre, hist, gui>>

-----------------------------------------------------------------------------
(* Bounds of the model *)

MaxSteps == 4        \* CPU.step is called directly while fewer steps ran since the reset
MaxFrames == 2       \* step_frame calls explored after a load or nes.reset
MaxResets == 1       \* reset calls explored after a load
MaxLoads == 1        \* load_rom calls explored
MaxWrites == 2       \* Bus.cpu_write calls explored
LoopFuel == 16384    \* iterations of step_frame's while loop the model unrolls

-----------------------------------------------------------------------------
(* Program constants *)

RAM_SIZE == 2048          \* 0x0800
PPU_REGS == 8             \* 0x0008
APU_REGS == 24            \* 0x0018
ADDR_SPACE == 65536       \* addr &= 0xFFFF
BYTE == 256               \* value &= 0xFF
RAM_END == 8192           \* 0x2000
PPU_END == 16384          \* 0x4000
APU_BASE == 16384         \* 0x4000
APU_END == 16416          \* 0x4020
PRG_BASE == 32768         \* 0x8000
RESET_VECTOR == 65532     \* 0xFFFC
DEFAULT_PC == 32768       \* 0x8000
RESET_SP == 253           \* 0xFD
RESET_P == 36             \* 0x24
RESET_CYCLES == 7
FRAME_CYCLES == 29780
PPU_PER_CPU == 3
DOTS == 341
SCANLINES == 262
HEADER_SIZE == 16
PRG_CHUNK == 16384        \* 16 * 1024
CHR_CHUNK == 8192         \* 8 * 1024
FLAG_Z == 2               \* 0x02
FLAG_N == 128             \* 0x80

OP_NOP == 234             \* 0xEA
OP_LDA == 169             \* 0xA9
OP_LDX == 162             \* 0xA2
OP_LDY == 160             \* 0xA0
OP_STA == 133             \* 0x85
OP_STX == 134             \* 0x86
OP_STY == 132             \* 0x84
OP_TAX == 170             \* 0xAA
OP_TAY == 168             \* 0xA8
OP_INX == 232             \* 0xE8
OP_INY == 200             \* 0xC8
OP_DEX == 202             \* 0xCA
OP_DEY == 136             \* 0x88
OP_JMP == 76              \* 0x4C
OP_BRK == 0               \* 0x00

-----------------------------------------------------------------------------
(* Python values *)

None == [none |-> TRUE]

\* What an out-of-range subscript evaluates to: the read raises IndexError.
IndexError == 0 - 1
ZeroDivisionError == 0 - 2

Min(a, b) == IF a < b THEN a ELSE b
Max(a, b) == IF a > b THEN a ELSE b

\* bit n of the non-negative integer v
Bit(v, n) == (v \div (2 ^ n)) % 2

\* a & b and a | b of two bytes, bit by bit
AndBit(a, b, n) == IF Bit(a, n) = 1 /\ Bit(b, n) = 1 THEN 2 ^ n ELSE 0

OrBit(a, b, n) == IF Bit(a, n) = 1 \/ Bit(b, n) = 1 THEN 2 ^ n ELSE 0

BitAnd(a, b) ==
    AndBit(a, b, 0) + AndBit(a, b, 1) + AndBit(a, b, 2) + AndBit(a, b, 3)
    + AndBit(a, b, 4) + AndBit(a, b, 5) + AndBit(a, b, 6) + AndBit(a, b, 7)

BitOr(a, b) ==
    OrBit(a, b, 0) + OrBit(a, b, 1) + OrBit(a, b, 2) + OrBit(a, b, 3)
    + OrBit(a, b, 4) + OrBit(a, b, 5) + OrBit(a, b, 6) + OrBit(a, b, 7)

\* A bytes / bytearray object of a ROM or a file: len bytes, byte i being
\* pts[i] where pts is defined and fill elsewhere.
Blob(len, pts, fill) == [len |-> len, pts |-> pts, fill |-> fill]

EmptyBlob == Blob(0, [i \in {} |-> 0], 0)

\* b[i] of a bytes object (Python subscripting: a negative i counts from the end)
BlobIndex(b, i) ==
    LET j == IF i < 0 THEN b.len + i ELSE i
    IN  IF j < 0 \/ j >= b.len THEN IndexError
        ELSE IF j \in DOMAIN b.pts THEN b.pts[j] ELSE b.fill

\* f.read(n) at file position pos, and b[pos:pos+n]: the bytes that are there
BlobRead(b, pos, n) ==
    LET m  == Min(n, Max(b.len - pos, 0))
        ks == {k \in DOMAIN b.pts : k >= pos /\ k < pos + m}
    IN  Blob(m, [i \in {k - pos : k \in ks} |-> b.pts[i + pos]], b.fill)

\* bytearray(n): n zero bytes, held like a bytes object with the non-zero bytes
\* in pts
ByteArray(n) == Blob(n, [i \in {} |-> 0], 0)

\* bytes given as a tuple, as a function on offsets base..base+Len-1
At(base, bytes) == [i \in base..(base + Len(bytes) - 1) |-> bytes[i - base + 1]]

\* f @@ g restricted to what is needed here: the union of two byte maps
Merge(f, g) == [i \in (DOMAIN f) \cup (DOMAIN g) |-> IF i \in DOMAIN f THEN f[i] ELSE g[i]]

-----------------------------------------------------------------------------
(* Bus *)

\* a Bus that pads a PRG buffer shorter than prg_size with zeros
Bus_padded(c) ==
    [cart     |-> [c EXCEPT !.prg_rom.len = Max(@, c.prg_size)],
     cpu_ram  |-> ByteArray(RAM_SIZE),
     ppu_regs |-> ByteArray(PPU_REGS),
     apu_regs |-> ByteArray(APU_REGS)]

\* An access returns the byte read (or IndexError) or the bus after the write.
Bus(c) ==
    [cart     |-> c,
     cpu_ram  |-> ByteArray(RAM_SIZE),
     ppu_regs |-> ByteArray(PPU_REGS),
     apu_regs |-> ByteArray(APU_REGS)]

\* "if self.cart and self.cart.prg_rom": a Cartridge object is true, a bytes
\* object is true when it is not empty
HasPrg(b) == b.cart # None /\ b.cart.prg_rom.len > 0

\* cpu_read with "addr % 0x0800" left out: only the first 2 KiB reach the RAM
cpu_read_unmirrored(b, addr0) ==
    LET addr == addr0 % ADDR_SPACE
    IN  IF addr < RAM_SIZE THEN BlobIndex(b.cpu_ram, addr)
        ELSE IF addr < RAM_END THEN 0
        ELSE IF addr < PPU_END THEN BlobIndex(b.ppu_regs, addr % PPU_REGS)
        ELSE IF addr < APU_END THEN BlobIndex(b.apu_regs, addr - APU_BASE)
        ELSE IF addr >= PRG_BASE /\ HasPrg(b)
             THEN LET prg_addr == addr - PRG_BASE
                      len      == b.cart.prg_rom.len
                  IN  BlobIndex(b.cart.prg_rom,
                                IF prg_addr >= len THEN prg_addr % len ELSE prg_addr)
        ELSE 0

\* cpu_read with the "prg_addr %= len(prg_rom)" wrap-around left out
cpu_read_unwrapped(b, addr0) ==
    LET addr == addr0 % ADDR_SPACE
    IN  IF addr < RAM_END THEN BlobIndex(b.cpu_ram, addr % RAM_SIZE)
        ELSE IF addr < PPU_END THEN BlobIndex(b.ppu_regs, addr % PPU_REGS)
        ELSE IF addr < APU_END THEN BlobIndex(b.apu_regs, addr - APU_BASE)
        ELSE IF addr >= PRG_BASE /\ HasPrg(b)
             THEN BlobIndex(b.cart.prg_rom, addr - PRG_BASE)
        ELSE 0

\* cpu_read that answers an unmapped address with its high byte instead of 0
cpu_read_openbus(b, addr0) ==
    LET addr == addr0 % ADDR_SPACE
    IN  IF addr < RAM_END THEN BlobIndex(b.cpu_ram, addr % RAM_SIZE)
        ELSE IF addr < PPU_END THEN BlobIndex(b.ppu_regs, addr % PPU_REGS)
        ELSE IF addr < APU_END THEN BlobIndex(b.apu_regs, addr - APU_BASE)
        ELSE IF addr >= PRG_BASE /\ HasPrg(b)
             THEN LET prg_addr == addr - PRG_BASE
                      len      == b.cart.prg_rom.len
                  IN  BlobIndex(b.cart.prg_rom,
                                IF prg_addr >= len THEN prg_addr % len ELSE prg_addr)
        ELSE IF addr >= PRG_BASE THEN 0
        ELSE addr \div BYTE

cpu_read(b, addr0) ==
    LET addr == addr0 % ADDR_SPACE
    IN  IF addr < RAM_END THEN BlobIndex(b.cpu_ram, addr % RAM_SIZE)
        ELSE IF addr < PPU_END THEN BlobIndex(b.ppu_regs, addr % PPU_REGS)
        ELSE IF addr < APU_END THEN BlobIndex(b.apu_regs, addr - APU_BASE)
        ELSE IF addr >= PRG_BASE /\ HasPrg(b)
             THEN LET prg_addr == addr - PRG_BASE
                      len      == b.cart.prg_rom.len
                  IN  BlobIndex(b.cart.prg_rom,
                                IF prg_addr >= len THEN prg_addr % len ELSE prg_addr)
        ELSE 0

\* arr[i] = value: the array after the store, or the array unchanged with exc set
ArrStore(arr, i, value) ==
    LET j  == IF i < 0 THEN arr.len + i ELSE i
        ks == IF value = arr.fill THEN (DOMAIN arr.pts) \ {j} ELSE (DOMAIN arr.pts) \cup {j}
    IN  IF j < 0 \/ j >= arr.len THEN [arr |-> arr, exc |-> "IndexError"]
        ELSE [arr |-> Blob(arr.len, [k \in ks |-> IF k = j THEN value ELSE arr.pts[k]],
                           arr.fill),
              exc |-> "none"]

\* cpu_write with "addr % 8" left out: only 0x2000-0x2007 reach a register
cpu_write_unmirrored(b, addr0, value0) ==
    LET addr  == addr0 % ADDR_SPACE
        value == value0 % BYTE
    IN  IF addr < RAM_END
        THEN LET s == ArrStore(b.cpu_ram, addr % RAM_SIZE, value)
             IN  [bus |-> [b EXCEPT !.cpu_ram = s.arr], exc |-> s.exc]
        ELSE IF addr < RAM_END + PPU_REGS
        THEN LET s == ArrStore(b.ppu_regs, addr - RAM_END, value)
             IN  [bus |-> [b EXCEPT !.ppu_regs = s.arr], exc |-> s.exc]
        ELSE IF addr < PPU_END
        THEN [bus |-> b, exc |-> "none"]
        ELSE IF addr < APU_END
        THEN LET s == ArrStore(b.apu_regs, addr - APU_BASE, value)
             IN  [bus |-> [b EXCEPT !.apu_regs = s.arr], exc |-> s.exc]
        ELSE [bus |-> b, exc |-> "none"]

\* cpu_write with "addr &= 0xFFFF" left out
cpu_write_unmasked(b, addr, value0) ==
    LET value == value0 % BYTE
    IN  IF addr < RAM_END
        THEN LET s == ArrStore(b.cpu_ram, addr % RAM_SIZE, value)
             IN  [bus |-> [b EXCEPT !.cpu_ram = s.arr], exc |-> s.exc]
        ELSE IF addr < PPU_END
        THEN LET s == ArrStore(b.ppu_regs, addr % PPU_REGS, value)
             IN  [bus |-> [b EXCEPT !.ppu_regs = s.arr], exc |-> s.exc]
        ELSE IF addr < APU_END
        THEN LET s == ArrStore(b.apu_regs, addr - APU_BASE, value)
             IN  [bus |-> [b EXCEPT !.apu_regs = s.arr], exc |-> s.exc]
        ELSE [bus |-> b, exc |-> "none"]

\* cpu_write that stores into the PRG buffer for 0x8000 and above
cpu_write_through(b, addr0, value0) ==
    LET addr  == addr0 % ADDR_SPACE
        value == value0 % BYTE
    IN  IF addr < RAM_END
        THEN LET s == ArrStore(b.cpu_ram, addr % RAM_SIZE, value)
             IN  [bus |-> [b EXCEPT !.cpu_ram = s.arr], exc |-> s.exc]
        ELSE IF addr < PPU_END
        THEN LET s == ArrStore(b.ppu_regs, addr % PPU_REGS, value)
             IN  [bus |-> [b EXCEPT !.ppu_regs = s.arr], exc |-> s.exc]
        ELSE IF addr < APU_END
        THEN LET s == ArrStore(b.apu_regs, addr - APU_BASE, value)
             IN  [bus |-> [b EXCEPT !.apu_regs = s.arr], exc |-> s.exc]
        ELSE IF addr >= PRG_BASE /\ HasPrg(b)
        THEN LET s == ArrStore(b.cart.prg_rom, (addr - PRG_BASE) % b.cart.prg_rom.len, value)
             IN  [bus |-> [b EXCEPT !.cart.prg_rom = s.arr], exc |-> s.exc]
        ELSE [bus |-> b, exc |-> "none"]

cpu_write(b, addr0, value0) ==
    LET addr  == addr0 % ADDR_SPACE
        value == value0 % BYTE
    IN  IF addr < RAM_END
        THEN LET s == ArrStore(b.cpu_ram, addr % RAM_SIZE, value)
             IN  [bus |-> [b EXCEPT !.cpu_ram = s.arr], exc |-> s.exc]
        ELSE IF addr < PPU_END
        THEN LET s == ArrStore(b.ppu_regs, addr % PPU_REGS, value)
             IN  [bus |-> [b EXCEPT !.ppu_regs = s.arr], exc |-> s.exc]
        ELSE IF addr < APU_END
        THEN LET s == ArrStore(b.apu_regs, addr - APU_BASE, value)
             IN  [bus |-> [b EXCEPT !.apu_regs = s.arr], exc |-> s.exc]
        ELSE [bus |-> b, exc |-> "none"]

-----------------------------------------------------------------------------
(* Cartridge *)

MAGIC == <<78, 69, 83, 26>>     \* b"NES\x1a"

\* header[0:4] as a tuple of the bytes that are there
Slice4(h) == [i \in 1..Min(4, h.len) |-> BlobIndex(h, i - 1)]

\* A file of the host: whether the path exists, and its bytes.
File(exists, name, data) == [exists |-> exists, name |-> name, data |-> data]

\* the mapper expression with "header[6] & 0x0F" for "header[6] >> 4"
MapperOf_low(h6, h7) == BitOr(BitAnd(h6, 15), BitAnd(h7, 240))

\* "mapper = (header[6] >> 4) | (header[7] & 0xF0)"
MapperOf(h6, h7) == BitOr(h6 \div 16, BitAnd(h7, 240))

\* load_from_file with the test of header[0:4] left out
load_from_file_unchecked(f) ==
    IF ~f.exists THEN [exc |-> "FileNotFoundError", cart |-> None]
    ELSE
    LET header == BlobRead(f.data, 0, HEADER_SIZE)
    IN  IF header.len < 8 THEN [exc |-> "IndexError", cart |-> None]
        ELSE
        LET prg_size == BlobIndex(header, 4) * PRG_CHUNK
            chr_size == BlobIndex(header, 5) * CHR_CHUNK
            prg_rom  == BlobRead(f.data, header.len, prg_size)
            chr_rom  == IF chr_size # 0
                        THEN BlobRead(f.data, header.len + prg_rom.len, chr_size)
                        ELSE EmptyBlob
        IN  [exc  |-> "none",
             cart |-> [prg_size |-> prg_size, chr_size |-> chr_size,
                       mapper |-> (BlobIndex(header, 6) \div 16)
                                  + 16 * (BlobIndex(header, 7) \div 16),
                       prg_rom |-> prg_rom, chr_rom |-> chr_rom, name |-> f.name]]

\* Cartridge.load_from_file: the exception raised, or the loaded cartridge
load_from_file(f) ==
    IF ~f.exists THEN [exc |-> "FileNotFoundError", cart |-> None]
    ELSE
    LET header == BlobRead(f.data, 0, HEADER_SIZE)
    IN  IF Slice4(header) # MAGIC THEN [exc |-> "ValueError", cart |-> None]
        ELSE IF header.len < 8 THEN [exc |-> "IndexError", cart |-> None]
        ELSE
        LET prg_rom_chunks == BlobIndex(header, 4)
            chr_rom_chunks == BlobIndex(header, 5)
            mapper   == MapperOf(BlobIndex(header, 6), BlobIndex(header, 7))
            prg_size == prg_rom_chunks * PRG_CHUNK
            chr_size == chr_rom_chunks * CHR_CHUNK
            prg_rom  == BlobRead(f.data, header.len, prg_size)
            chr_rom  == IF chr_size # 0
                        THEN BlobRead(f.data, header.len + prg_rom.len, chr_size)
                        ELSE EmptyBlob
        IN  [exc  |-> "none",
             cart |-> [prg_size |-> prg_size, chr_size |-> chr_size,
                       mapper |-> mapper, prg_rom |-> prg_rom,
                       chr_rom |-> chr_rom, name |-> f.name]]

\* the test PRG with the vector written at 0x3FFE and 0x3FFF
TEST_PRG_vector_last ==
    Blob(PRG_CHUNK,
         Merge(At(0, <<OP_LDA, 66, OP_NOP, OP_BRK>>), At(16382, <<0, 128>>)),
         OP_NOP)

\* Cartridge.create_test_rom: LDA #$42, NOP, BRK, NOP filler, reset vector $8000
TEST_PRG == Blob(PRG_CHUNK,
                 Merge(At(0, <<OP_LDA, 66, OP_NOP, OP_BRK>>), At(16380, <<0, 128>>)),
                 OP_NOP)

Cartridge_create_test_rom ==
    [prg_size |-> PRG_CHUNK, chr_size |-> 0, mapper |-> 0,
     prg_rom |-> TEST_PRG, chr_rom |-> EmptyBlob, name |-> "Test ROM"]

-----------------------------------------------------------------------------
(* CPU6502 *)

CPU6502 ==
    [A |-> 0, X |-> 0, Y |-> 0, SP |-> RESET_SP, PC |-> DEFAULT_PC, P |-> RESET_P,
     cycles |-> 0, total_cycles |-> 0, halted |-> FALSE]

\* CPU6502.reset with "self.A = 0" left out
CPU_reset_keeping_A(c, b) ==
    [c EXCEPT !.PC = cpu_read(b, RESET_VECTOR + 1) * BYTE + cpu_read(b, RESET_VECTOR),
              !.SP = RESET_SP, !.P = RESET_P, !.X = 0, !.Y = 0,
              !.cycles = RESET_CYCLES, !.total_cycles = 0, !.halted = FALSE]

\* CPU6502.reset: a failed read of the vector is caught and gives the default PC
CPU_reset(c, b) ==
    LET lo == cpu_read(b, RESET_VECTOR)
        hi == cpu_read(b, RESET_VECTOR + 1)
    IN  [c EXCEPT !.PC = IF lo = IndexError \/ hi = IndexError
                         THEN DEFAULT_PC ELSE hi * BYTE + lo,
                  !.SP = RESET_SP, !.P = RESET_P,
                  !.A = 0, !.X = 0, !.Y = 0,
                  !.cycles = RESET_CYCLES, !.total_cycles = 0, !.halted = FALSE]

\* _set_zn with the Zero test inverted
set_zn_inverted(P, value) ==
    (P - FLAG_Z * Bit(P, 1) - FLAG_N * Bit(P, 7))
    + (IF value # 0 THEN FLAG_Z ELSE 0)
    + (IF Bit(value, 7) = 1 THEN FLAG_N ELSE 0)

\* _set_zn without "P & ~0x82": flags that were set stay set
set_zn_sticky(P, value) ==
    P + (IF value = 0 /\ Bit(P, 1) = 0 THEN FLAG_Z ELSE 0)
      + (IF Bit(value, 7) = 1 /\ Bit(P, 7) = 0 THEN FLAG_N ELSE 0)

\* _set_zn that builds P from the two flags alone
set_zn_clobbering(P, value) ==
    (IF value = 0 THEN FLAG_Z ELSE 0) + (IF Bit(value, 7) = 1 THEN FLAG_N ELSE 0)

\* CPU6502._set_zn: P = (P & ~0x82) | (0x02 if value == 0) | (0x80 if value & 0x80)
set_zn(P, value) ==
    (P - FLAG_Z * Bit(P, 1) - FLAG_N * Bit(P, 7))
    + (IF value = 0 THEN FLAG_Z ELSE 0)
    + (IF Bit(value, 7) = 1 THEN FLAG_N ELSE 0)

\* The machine a step works on, and the exception that escaped it.
M(c, b, exc) == [cpu |-> c, bus |-> b, exc |-> exc]

\* "self.PC = self.PC + 1" without the mask
IncPC_unmasked(c) == [c EXCEPT !.PC = c.PC + 1]

\* "self.PC = (self.PC + 1) & 0xFFFF"
IncPC(c) == [c EXCEPT !.PC = (c.PC + 1) % ADDR_SPACE]

\* "value = mem_read(PC); PC += 1; reg = value; _set_zn(reg); cycles += 2"
LoadImm(c, b, reg) ==
    LET value == cpu_read(b, c.PC)
    IN  IF value = IndexError THEN M(c, b, "IndexError")
        ELSE M([IncPC(c) EXCEPT ![reg] = value,
                                !.P = set_zn(c.P, value),
                                !.cycles = @ + 2], b, "none")

\* the store with "cycles += 2" for "cycles += 3"
Stored_cheap(c, b, w) ==
    IF w.exc # "none" THEN M(c, b, w.exc)
    ELSE M([c EXCEPT !.cycles = @ + 2], w.bus, "none")

\* "addr = mem_read(PC); PC += 1; mem_write(addr, reg); cycles += 3"
Stored(c, b, w) ==
    IF w.exc # "none" THEN M(c, b, w.exc)
    ELSE M([c EXCEPT !.cycles = @ + 3], w.bus, "none")

\* the store with the operand taken as an address of page 1
StoreZp_page1(c, b, reg) ==
    LET addr == cpu_read(b, c.PC)
    IN  IF addr = IndexError THEN M(c, b, "IndexError")
        ELSE Stored(IncPC(c), b, cpu_write(b, BYTE + addr, c[reg]))

StoreZp(c, b, reg) ==
    LET addr == cpu_read(b, c.PC)
    IN  IF addr = IndexError THEN M(c, b, "IndexError")
        ELSE Stored(IncPC(c), b, cpu_write(b, addr, c[reg]))

\* "reg = value; _set_zn(reg); cycles += 2" of TAX, TAY, INX, INY, DEX, DEY
SetReg(c, b, reg, value) ==
    M([c EXCEPT ![reg] = value, !.P = set_zn(c.P, value), !.cycles = @ + 2], b, "none")

\* JMP with the operand bytes taken high byte first
JmpAbs_big_endian(c, b) ==
    [cpu |-> [c EXCEPT !.PC = cpu_read(b, c.PC) * BYTE + cpu_read(b, (c.PC + 1) % ADDR_SPACE),
                       !.cycles = @ + 3],
     bus |-> b, exc |-> "none"]

\* JMP with "self.cycles += 3" left out
JmpAbs_uncounted(c, b) ==
    [cpu |-> [c EXCEPT !.PC = cpu_read(b, (c.PC + 1) % ADDR_SPACE) * BYTE + cpu_read(b, c.PC)],
     bus |-> b, exc |-> "none"]

\* "lo = mem_read(PC); hi = mem_read(PC + 1); PC = (hi << 8) | lo; cycles += 3"
JmpAbs(c, b) ==
    LET lo == cpu_read(b, c.PC)
        hi == cpu_read(b, (c.PC + 1) % ADDR_SPACE)
    IN  IF lo = IndexError \/ hi = IndexError THEN M(c, b, "IndexError")
        ELSE M([c EXCEPT !.PC = hi * BYTE + lo, !.cycles = @ + 3], b, "none")

\* cycles an opcode outside the table costs
UNKNOWN_COST == 2
BRK_COST == 7
HALTED_COST == 1

\* the opcodes CPU6502.step has a branch for
Implemented ==
    {OP_NOP, OP_LDA, OP_LDX, OP_LDY, OP_STA, OP_STX, OP_STY, OP_TAX, OP_TAY,
     OP_INX, OP_INY, OP_DEX, OP_DEY, OP_JMP, OP_BRK}

\* the dispatch with an else branch that halts the CPU instead of counting 2 cycles
Execute_strict(c, b, opcode) ==
    CASE opcode = OP_NOP -> M([c EXCEPT !.cycles = @ + 2], b, "none")
      [] opcode = OP_LDA -> LoadImm(c, b, "A")
      [] opcode = OP_LDX -> LoadImm(c, b, "X")
      [] opcode = OP_LDY -> LoadImm(c, b, "Y")
      [] opcode = OP_STA -> StoreZp(c, b, "A")
      [] opcode = OP_STX -> StoreZp(c, b, "X")
      [] opcode = OP_STY -> StoreZp(c, b, "Y")
      [] opcode = OP_TAX -> SetReg(c, b, "X", c.A)
      [] opcode = OP_TAY -> SetReg(c, b, "Y", c.A)
      [] opcode = OP_INX -> SetReg(c, b, "X", (c.X + 1) % BYTE)
      [] opcode = OP_INY -> SetReg(c, b, "Y", (c.Y + 1) % BYTE)
      [] opcode = OP_DEX -> SetReg(c, b, "X", (c.X - 1) % BYTE)
      [] opcode = OP_DEY -> SetReg(c, b, "Y", (c.Y - 1) % BYTE)
      [] opcode = OP_JMP -> JmpAbs(c, b)
      [] opcode = OP_BRK -> M([c EXCEPT !.halted = TRUE, !.cycles = @ + BRK_COST], b, "none")
      [] OTHER           -> M([c EXCEPT !.halted = TRUE, !.cycles = @ + UNKNOWN_COST], b, "none")

\* the dispatch of CPU6502.step on the opcode fetched; c.PC is past the opcode
Execute(c, b, opcode) ==
    CASE opcode = OP_NOP -> M([c EXCEPT !.cycles = @ + 2], b, "none")
      [] opcode = OP_LDA -> LoadImm(c, b, "A")
      [] opcode = OP_LDX -> LoadImm(c, b, "X")
      [] opcode = OP_LDY -> LoadImm(c, b, "Y")
      [] opcode = OP_STA -> StoreZp(c, b, "A")
      [] opcode = OP_STX -> StoreZp(c, b, "X")
      [] opcode = OP_STY -> StoreZp(c, b, "Y")
      [] opcode = OP_TAX -> SetReg(c, b, "X", c.A)
      [] opcode = OP_TAY -> SetReg(c, b, "Y", c.A)
      [] opcode = OP_INX -> SetReg(c, b, "X", (c.X + 1) % BYTE)
      [] opcode = OP_INY -> SetReg(c, b, "Y", (c.Y + 1) % BYTE)
      [] opcode = OP_DEX -> SetReg(c, b, "X", (c.X - 1) % BYTE)
      [] opcode = OP_DEY -> SetReg(c, b, "Y", (c.Y - 1) % BYTE)
      [] opcode = OP_JMP -> JmpAbs(c, b)
      [] opcode = OP_BRK -> M([c EXCEPT !.halted = TRUE, !.cycles = @ + BRK_COST], b, "none")
      [] OTHER           -> M([c EXCEPT !.cycles = @ + UNKNOWN_COST], b, "none")

\* the step without "self.total_cycles += self.cycles"
Account_unsummed(m) == m

\* "self.total_cycles += self.cycles", which an escaping exception skips
Account(m) ==
    IF m.exc # "none" THEN m
    ELSE [m EXCEPT !.cpu.total_cycles = @ + m.cpu.cycles]

\* CPU6502.step whose halted branch clears the flag
CPU_step_resuming(c, b) ==
    IF c.halted THEN M([c EXCEPT !.cycles = @ + HALTED_COST, !.halted = FALSE], b, "none")
    ELSE Account(Execute(IncPC(c), b, cpu_read(b, c.PC)))

\* CPU6502.step whose halted branch falls through to "total_cycles += cycles"
CPU_step_accounting(c, b) ==
    IF c.halted THEN Account(M([c EXCEPT !.cycles = @ + HALTED_COST], b, "none"))
    ELSE IF cpu_read(b, c.PC) = IndexError THEN M(c, b, "IndexError")
    ELSE Account(Execute(IncPC(c), b, cpu_read(b, c.PC)))

\* CPU6502.step: one instruction; a halted CPU only counts a cycle
CPU_step(c, b) ==
    IF c.halted THEN M([c EXCEPT !.cycles = @ + HALTED_COST], b, "none")
    ELSE
    LET opcode == cpu_read(b, c.PC)
    IN  IF opcode = IndexError THEN M(c, b, "IndexError")
        ELSE Account(Execute(IncPC(c), b, opcode))

-----------------------------------------------------------------------------
(* PPU *)

FRAME_H == 240
FRAME_W == 256
PATTERN_TICKS == 60
SIN_BASE == 240

\* The pixels <<y, x>> of the 240x256 frame the model keeps.
SamplePixels == {<<0, 0>>, <<16, 17>>, <<100, 200>>, <<239, 255>>}

PPU ==
    [frame |-> [p \in SamplePixels |-> <<0, 0, 0>>],
     frame_count |-> 0, scanline |-> 0, cycle |-> 0]

\* int(128 + 127 * np.sin(v * 0.05)) for v in 240..613, the arguments x + tick * 2
\* of the ticks 120..179 that select the sine pattern
SinTable ==
  <<
     59, 65, 70, 76, 82, 88, 94, 100, 106, 113, 119, 125, 132, 138, 144, 151, 157, 163, 169, 175, 181, 187,
     192, 197, 203, 208, 213, 217, 222, 226, 230, 233, 237, 240, 243, 245, 247, 249, 251, 252, 253, 254, 254, 254,
     254, 254, 253, 252, 250, 248, 246, 244, 241, 238, 235, 231, 228, 224, 219, 215, 210, 205, 200, 195, 189, 184,
     178, 172, 166, 160, 154, 147, 141, 135, 129, 122, 116, 110, 103, 97, 91, 85, 79, 73, 68, 62, 57, 51,
     46, 42, 37, 33, 29, 25, 21, 18, 15, 12, 10, 7, 5, 4, 3, 2, 1, 1, 1, 1, 1, 2,
     4, 5, 7, 9, 12, 14, 17, 21, 24, 28, 32, 36, 41, 46, 51, 56, 61, 67, 72, 78, 84, 90,
     96, 102, 109, 115, 121, 128, 134, 140, 147, 153, 159, 165, 171, 177, 183, 188, 194, 199, 204, 209, 214, 219,
     223, 227, 231, 234, 238, 241, 243, 246, 248, 250, 251, 253, 254, 254, 254, 254, 254, 253, 252, 251, 250, 248,
     245, 243, 240, 237, 234, 230, 226, 222, 218, 213, 208, 203, 198, 193, 187, 182, 176, 170, 164, 158, 152, 145,
     139, 133, 126, 120, 114, 107, 101, 95, 89, 83, 77, 71, 66, 60, 55, 50, 45, 40, 36, 31, 27, 24,
     20, 17, 14, 11, 9, 7, 5, 3, 2, 1, 1, 1, 1, 1, 2, 3, 4, 6, 8, 10, 12, 15,
     18, 22, 25, 29, 34, 38, 43, 47, 52, 58, 63, 69, 74, 80, 86, 92, 98, 104, 111, 117, 123, 130,
     136, 142, 149, 155, 161, 167, 173, 179, 185, 190, 196, 201, 206, 211, 216, 220, 224, 228, 232, 236, 239, 242,
     244, 247, 249, 250, 252, 253, 254, 254, 254, 254, 254, 253, 252, 251, 249, 247, 245, 242, 239, 236, 233, 229,
     225, 221, 216, 212, 207, 202, 196, 191, 186, 180, 174, 168, 162, 156, 150, 143, 137, 131, 124, 118, 112, 105,
     99, 93, 87, 81, 75, 69, 64, 58, 53, 48, 43, 39, 34, 30, 26, 22, 19, 16, 13, 10, 8, 6,
     4, 3, 2, 1, 1, 1, 1, 1, 2, 3, 5, 6, 8, 11, 13, 16, 20, 23, 27, 31, 35, 39
  >>

SinWave(v) == SinTable[v - SIN_BASE + 1]

\* the colors list of the color-bar pattern
BarColors ==
    << <<255, 0, 0>>, <<255, 128, 0>>, <<255, 255, 0>>, <<0, 255, 0>>,
       <<0, 255, 255>>, <<0, 0, 255>>, <<128, 0, 255>>, <<255, 0, 255>> >>

\* the value render_frame(t) stores in frame[y, x]
Pixel(t, y, x) ==
    LET pattern_type == (t \div PATTERN_TICKS) % 4
    IN  CASE pattern_type = 0 ->
               <<(x + t * 2) % 256, (y + t) % 256, ((x * y) \div 256 + t * 3) % 256>>
          [] pattern_type = 1 ->
               LET checker == ((x \div 16) + (y \div 16)) % 2
                   color   == IF checker # 0 THEN 255 ELSE 0
                   shift   == (t * 4) % 256
               IN  <<color, (color + shift) % 256, shift>>
          [] pattern_type = 2 ->
               LET wave == SinWave(x + t * 2)
               IN  <<wave, 255 - wave, (t * 2) % 256>>
          [] OTHER -> BarColors[((x \div 32) % 8) + 1]

\* render_frame with "self.frame_count += 1" left out
render_frame_uncounted(p, t) ==
    [p EXCEPT !.frame = [px \in SamplePixels |-> Pixel(t, px[1], px[2])]]

\* render_frame that adds the pattern to the pixel that is there
render_frame_blended(p, t) ==
    [p EXCEPT !.frame = [px \in SamplePixels |->
                            [i \in 1..3 |-> (p.frame[px][i] + Pixel(t, px[1], px[2])[i]) % BYTE]],
              !.frame_count = @ + 1]

\* PPU.render_frame: every pixel is overwritten, frame_count += 1
render_frame(p, t) ==
    [p EXCEPT !.frame = [px \in SamplePixels |-> Pixel(t, px[1], px[2])],
              !.frame_count = @ + 1]

\* PPU.step with "self.cycle > 341" for "self.cycle >= 341"
PPU_step_late(p) ==
    IF p.cycle + 1 > DOTS
    THEN [p EXCEPT !.cycle = 0,
                   !.scanline = IF p.scanline + 1 >= SCANLINES THEN 0 ELSE p.scanline + 1]
    ELSE [p EXCEPT !.cycle = p.cycle + 1]

\* PPU.step: one dot
PPU_step(p) ==
    IF p.cycle + 1 >= DOTS
    THEN [p EXCEPT !.cycle = 0,
                   !.scanline = IF p.scanline + 1 >= SCANLINES THEN 0 ELSE p.scanline + 1]
    ELSE [p EXCEPT !.cycle = p.cycle + 1]

\* "for _ in range(n): self.ppu.step()"
RECURSIVE PPU_steps(_, _)
PPU_steps(p, n) == IF n = 0 THEN p ELSE PPU_steps(PPU_step(p), n - 1)

-----------------------------------------------------------------------------
(* SamsoftNES.step_frame *)

\* The objects the while loop of step_frame works on: n counts the CPU.step
\* calls made and dots the PPU.step calls made.
Loop(c, b, p) == [cpu |-> c, bus |-> b, ppu |-> p, exc |-> "none", n |-> 0, dots |-> 0]

\* the loop condition with "and not self.cpu.halted" left out
LoopCond_unhalted(m, target) ==
    m.exc = "none" /\ m.cpu.cycles < target

\* the loop condition reading total_cycles for cycles
LoopCond_total(m, target) ==
    m.exc = "none" /\ m.cpu.total_cycles < target /\ ~m.cpu.halted

\* "while self.cpu.cycles < target_cycles and not self.cpu.halted"
LoopCond(m, target) ==
    m.exc = "none" /\ m.cpu.cycles < target /\ ~m.cpu.halted

\* the body with "range(2)" for "range(3)"
AfterStep_two_dots(m, s) ==
    IF s.exc # "none"
    THEN [m EXCEPT !.cpu = s.cpu, !.bus = s.bus, !.exc = s.exc, !.n = @ + 1]
    ELSE [m EXCEPT !.cpu = s.cpu, !.bus = s.bus, !.n = @ + 1,
                   !.ppu = PPU_steps(m.ppu, 2),
                   !.dots = @ + 2]

\* the body: cpu.step(), then ppu.step() three times
AfterStep(m, s) ==
    IF s.exc # "none"
    THEN [m EXCEPT !.cpu = s.cpu, !.bus = s.bus, !.exc = s.exc, !.n = @ + 1]
    ELSE [m EXCEPT !.cpu = s.cpu, !.bus = s.bus, !.n = @ + 1,
                   !.ppu = PPU_steps(m.ppu, PPU_PER_CPU),
                   !.dots = @ + PPU_PER_CPU]

LoopBody(m) == AfterStep(m, CPU_step(m.cpu, m.bus))

\* The loop run for at most fuel iterations: the state it stops in.  The run is
\* split in halves so that the evaluation nests no deeper than log2(fuel).
RECURSIVE RunLoop(_, _, _)
RunLoop(m, target, fuel) ==
    IF fuel = 0 \/ ~LoopCond(m, target) THEN m
    ELSE IF fuel = 1 THEN LoopBody(m)
    ELSE LET half == RunLoop(m, target, fuel \div 2)
         IN  RunLoop(half, target, fuel - (fuel \div 2))

\* SamsoftNES.reset that also rewinds the dot and scanline counters
NES_reset_rewinding(c, b, p) ==
    [cpu  |-> IF c # None THEN CPU_reset(c, b) ELSE c,
     tick |-> 0,
     ppu  |-> [p EXCEPT !.frame_count = 0, !.cycle = 0, !.scanline = 0]]

\* SamsoftNES.reset with "self.ppu.frame_count = 0" left out
NES_reset_keeping_count(c, b, p) ==
    [cpu  |-> IF c # None THEN CPU_reset(c, b) ELSE c,
     tick |-> 0,
     ppu  |-> p]

\* SamsoftNES.reset on the console objects c (cpu), b (bus), p (ppu)
NES_reset(c, b, p) ==
    [cpu  |-> IF c # None THEN CPU_reset(c, b) ELSE c,
     tick |-> 0,
     ppu  |-> [p EXCEPT !.frame_count = 0]]

\* SamsoftNES.step_frame at tick t: the objects afterwards, the frame returned,
\* the exception that escaped, and what the loop did.
\* "self.tick += 1; return self.ppu.render_frame(self.tick)" after the loop
\* stopped in m, unless an exception left the loop
AfterLoop(m, t, target) ==
    IF m.exc # "none"
    THEN [cpu |-> m.cpu, bus |-> m.bus, ppu |-> m.ppu, tick |-> t, exc |-> m.exc,
          ret |-> None, n |-> m.n, dots |-> m.dots, target |-> target,
          exited |-> m.cpu = None \/ ~LoopCond(m, target)]
    ELSE [cpu |-> m.cpu, bus |-> m.bus, ppu |-> render_frame(m.ppu, t + 1),
          tick |-> t + 1, exc |-> "none",
          ret |-> render_frame(m.ppu, t + 1).frame, n |-> m.n, dots |-> m.dots,
          target |-> target,
          exited |-> m.cpu = None \/ ~LoopCond(m, target)]

NES_step_frame(c, b, p, t) ==
    IF c # None
    THEN AfterLoop(RunLoop(Loop(c, b, p), c.cycles + FRAME_CYCLES, LoopFuel),
                   t, c.cycles + FRAME_CYCLES)
    ELSE AfterLoop(Loop(c, b, p), t, 0)

\* the three assignments of load_rom with "self.reset()" left out
Loaded_unreset(c, p) ==
    [cart |-> c, bus |-> Bus(c), cpu |-> CPU6502, ppu |-> p, tick |-> 0]

\* "self.bus = Bus(self.cart); self.cpu = CPU6502(...); self.reset()"
Loaded(c, p) ==
    [cart |-> c, bus |-> Bus(c)] @@ NES_reset(CPU6502, Bus(c), p)

\* load_rom that installs the built-in test cartridge when the file cannot be loaded
NES_load_rom_fallback(f, p) ==
    LET r == load_from_file(f)
    IN  IF r.exc # "none"
        THEN [ok |-> TRUE, exc |-> r.exc] @@ Loaded(Cartridge_create_test_rom, p)
        ELSE [ok |-> TRUE, exc |-> "none"] @@ Loaded(r.cart, p)

\* SamsoftNES.load_rom(path of f) with the picture unit p: the objects afterwards
NES_load_rom(f, p) ==
    LET r == load_from_file(f)
    IN  IF r.exc # "none" THEN [ok |-> FALSE, exc |-> r.exc]
        ELSE [ok |-> TRUE, exc |-> "none"] @@ Loaded(r.cart, p)

\* SamsoftNES.create_test_rom
NES_create_test_rom(p) ==
    Loaded(Cartridge_create_test_rom, p)

-----------------------------------------------------------------------------
(* The files of the host the model loads *)

\* the 16-byte iNES header
Header(prg_chunks, chr_chunks, flags6, flags7) ==
    <<78, 69, 83, 26, prg_chunks, chr_chunks, flags6, flags7, 0, 0, 0, 0, 0, 0, 0, 0>>

\* A file: header, then len data bytes that are pts[i] at data offset i where
\* pts is defined, and fill elsewhere.
Rom(name, header, len, pts, fill) ==
    File(TRUE, name,
         Blob(Len(header) + len,
              Merge(At(0, header),
                    [i \in {k + Len(header) : k \in DOMAIN pts} |-> pts[i - Len(header)]]),
              fill))

\* the reset vector $8000 in the last bytes of a 16 KiB PRG bank
VEC_AT == 16380           \* 0x3FFC
Vec8000 == At(VEC_AT, <<0, 128>>)

\* LDA #$42, NOP, BRK at $8000, with one CHR bank after the PRG bank
ROM_TEST == Rom("test.nes", Header(1, 1, 0, 0), PRG_CHUNK + CHR_CHUNK,
                Merge(At(0, <<OP_LDA, 66, OP_NOP, OP_BRK>>), Vec8000), OP_NOP)

\* LDX #$FF, INX, DEX, STX $11, BRK at $8000; mapper 0x21
ROM_XREG == Rom("xreg.nes", Header(1, 0, 31, 47), PRG_CHUNK,
                Merge(At(0, <<OP_LDX, 255, OP_INX, OP_DEX, OP_STX, 17, OP_BRK>>), Vec8000),
                OP_NOP)

\* LDY #$00, DEY, INY, STY $12, BRK at $8000
ROM_YREG == Rom("yreg.nes", Header(1, 0, 0, 0), PRG_CHUNK,
                Merge(At(0, <<OP_LDY, 0, OP_DEY, OP_INY, OP_STY, 18, OP_BRK>>), Vec8000),
                OP_NOP)

\* LDA #$80, TAX, TAY, STA $10, BRK at $8000
ROM_AREG == Rom("areg.nes", Header(1, 0, 0, 0), PRG_CHUNK,
                Merge(At(0, <<OP_LDA, 128, OP_TAX, OP_TAY, OP_STA, 16, OP_BRK>>), Vec8000),
                OP_NOP)

\* JMP $8005 at $8000, an opcode outside the table at $8005, then BRK; the
\* filler is outside the table too
ROM_JUMP == Rom("jump.nes", Header(1, 0, 0, 0), PRG_CHUNK,
                Merge(At(0, <<OP_JMP, 5, 128, 255, 255, 2, OP_BRK>>), Vec8000), 255)

\* no PRG bank: every read of $8000..$FFFF gives 0
ROM_EMPTY == Rom("empty.nes", Header(0, 0, 0, 0), 0, At(0, <<>>), 0)

\* two PRG banks: LDX #$01, BRK at $8000, LDA #$00, BRK at $C000, and the reset
\* vector $C000 at the end of the second bank
ROM_32K == Rom("big.nes", Header(2, 0, 0, 0), 2 * PRG_CHUNK,
               Merge(At(0, <<OP_LDX, 1, OP_BRK>>),
                     Merge(At(PRG_CHUNK, <<OP_LDA, 0, OP_BRK>>),
                           At(PRG_CHUNK + VEC_AT, <<0, 192>>))),
               OP_NOP)

\* the header announces one PRG bank and the file ends after 5 bytes of it
ROM_TRUNC == Rom("trunc.nes", Header(1, 0, 0, 0), 5,
                 At(0, <<128, OP_LDA, 7, OP_BRK, 1>>), 0)

\* reset vector $FFFE, NOP at $FFFE and LDA at $FFFF, whose operand is
\* fetched at $0000
ROM_WRAP == Rom("wrap.nes", Header(1, 0, 0, 0), PRG_CHUNK,
                At(VEC_AT, <<254, 255, OP_NOP, OP_LDA>>), OP_NOP)

\* JMP $4018 at $8000: the opcode fetch after the jump indexes apu_regs at 0x18
ROM_APU == Rom("apu.nes", Header(1, 0, 0, 0), PRG_CHUNK,
               Merge(At(0, <<OP_JMP, 24, 64>>), Vec8000), OP_NOP)

\* the first four bytes are not the magic
BAD_MAGIC == File(TRUE, "bad.nes",
                  Blob(HEADER_SIZE + PRG_CHUNK, At(0, <<78, 69, 83, 0, 1>>), 0))

\* the file ends inside the header
SHORT_HEADER == File(TRUE, "short.nes", Blob(6, At(0, <<78, 69, 83, 26, 1, 0>>), 0))

\* the path does not exist
MISSING == File(FALSE, "missing.nes", Blob(0, At(0, <<>>), 0))

\* every PRG byte 0xFF: the reset vector is $FFFF and the byte there is no opcode
\* of the table
ROM_FF == Rom("ff.nes", Header(1, 0, 0, 0), PRG_CHUNK, At(0, <<>>), 255)

\* JMP $8000 at $8000: the program never halts
ROM_SPIN == Rom("spin.nes", Header(1, 0, 0, 0), PRG_CHUNK,
                Merge(At(0, <<OP_JMP, 0, 128>>), Vec8000), OP_NOP)

\* STA $10, NOP, JMP $8000: a loop of 3 + 2 + 3 cycles
ROM_LOOP == Rom("loop.nes", Header(1, 0, 0, 0), PRG_CHUNK,
                Merge(At(0, <<OP_STA, 16, OP_NOP, OP_JMP, 0, 128>>), Vec8000),
                OP_NOP)

\* NOP from $8000 up to the BRK the reset vector's low byte is at $FFFC
ROM_SLED == Rom("sled.nes", Header(1, 0, 0, 0), PRG_CHUNK, Vec8000, OP_NOP)

Files == {ROM_TEST, ROM_XREG, ROM_YREG, ROM_AREG, ROM_JUMP, ROM_EMPTY, ROM_32K,
          ROM_TRUNC, ROM_WRAP, ROM_APU, BAD_MAGIC, SHORT_HEADER, MISSING}

FrameFiles == {ROM_TEST, ROM_XREG, ROM_AREG, ROM_JUMP, ROM_WRAP, ROM_EMPTY, ROM_APU,
               ROM_SPIN, ROM_LOOP, ROM_SLED}

-----------------------------------------------------------------------------
(* The calls a host makes *)

\* history of the last call: its name and arguments; for a load of flags.nes
\* addr and value hold the bytes 6 and 7 of the file that was at the path
Op(name, file, addr, value) == [name |-> name, file |-> file, addr |-> addr, value |-> value]

\* history of the last call: the registers and the halted flag it found
Pre == IF cpu = None THEN None
       ELSE [A |-> cpu.A, X |-> cpu.X, Y |-> cpu.Y, halted |-> cpu.halted]

\* steps: CPU.step calls since the last CPU.reset; frames: step_frame calls
\* since tick was last zeroed; resets: resets since the last load; loads,
\* writes: calls made; n, dots, target, exited: the CPU.step and
\* PPU.step calls of the last call if it was step_frame, its target_cycles, and
\* whether its loop condition was false when it returned.
Hist0 == [steps |-> 0, frames |-> 0, resets |-> 0, loads |-> 0, writes |-> 0,
          n |-> 0, dots |-> 0, target |-> 0, exited |-> TRUE]

NoFrame(h) == [h EXCEPT !.n = 0, !.dots = 0, !.target = 0, !.exited = TRUE]

\* SamsoftNES(): no cartridge, bus or CPU yet
InitCore ==
    /\ cart = None
    /\ bus = None
    /\ cpu = None
    /\ ppu = PPU
    /\ tick = 0
    /\ raised = "none"
    /\ ret = None
    /\ op = Op("init", "", 0, 0)
    /\ pre = None
    /\ hist = Hist0
    /\ gui = None

\* NESEmulatorGUI.__init__: SamsoftNES(), then create_test_rom()
InitGui ==
    /\ \E r \in {NES_create_test_rom(PPU)} :
           /\ cart = r.cart
           /\ bus = r.bus
           /\ cpu = r.cpu
           /\ ppu = r.ppu
           /\ tick = r.tick
    /\ raised = "none"
    /\ ret = None
    /\ op = Op("create_test_rom", "", 0, 0)
    /\ pre = None
    /\ hist = Hist0
    /\ gui = None

Init == InitCore \/ InitGui

\* nes.load_rom(path of f)
LoadRom(f) ==
    /\ hist.loads < MaxLoads
    /\ \E r \in {NES_load_rom(f, ppu)} :
           /\ cart' = IF r.ok THEN r.cart ELSE cart
           /\ bus'  = IF r.ok THEN r.bus ELSE bus
           /\ cpu'  = IF r.ok THEN r.cpu ELSE cpu
           /\ ppu'  = IF r.ok THEN r.ppu ELSE ppu
           /\ tick' = IF r.ok THEN r.tick ELSE tick
           /\ ret'  = r.ok
           /\ hist' = IF r.ok
                      THEN [NoFrame(hist) EXCEPT !.loads = @ + 1, !.steps = 0, !.frames = 0,
                                                 !.resets = 0]
                      ELSE [NoFrame(hist) EXCEPT !.loads = @ + 1]
    /\ raised' = "none"
    /\ op' = Op("load_rom", f.name, 0, 0)
    /\ pre' = Pre
    /\ UNCHANGED gui

\* nes.reset()
Reset ==
    /\ hist.resets < MaxResets
    /\ \E z \in {NES_reset(cpu, bus, ppu)} :
           /\ cpu' = z.cpu
           /\ ppu' = z.ppu
           /\ tick' = z.tick
    /\ hist' = [NoFrame(hist) EXCEPT !.resets = @ + 1, !.steps = 0, !.frames = 0]
    /\ raised' = "none"
    /\ ret' = None
    /\ op' = Op("reset", "", 0, 0)
    /\ pre' = Pre
    /\ UNCHANGED gui
    /\ UNCHANGED <<cart, bus>>

\* nes.cpu.reset()
CpuReset ==
    /\ cpu # None
    /\ hist.resets < MaxResets
    /\ cpu' = CPU_reset(cpu, bus)
    /\ hist' = [NoFrame(hist) EXCEPT !.resets = @ + 1, !.steps = 0]
    /\ raised' = "none"
    /\ ret' = None
    /\ op' = Op("cpu.reset", "", 0, 0)
    /\ pre' = Pre
    /\ UNCHANGED gui
    /\ UNCHANGED <<cart, bus, ppu, tick>>

\* nes.cpu.step()
CpuStep ==
    /\ cpu # None
    /\ hist.steps < MaxSteps
    /\ \E m \in {CPU_step(cpu, bus)} :
           /\ cpu' = m.cpu
           /\ bus' = m.bus
           /\ raised' = m.exc
    /\ hist' = [NoFrame(hist) EXCEPT !.steps = @ + 1]
    /\ ret' = None
    /\ op' = Op("cpu.step", "", 0, 0)
    /\ pre' = Pre
    /\ UNCHANGED gui
    /\ UNCHANGED <<cart, ppu, tick>>

\* nes.step_frame()
StepFrame ==
    /\ hist.frames < MaxFrames
    /\ \E r \in {NES_step_frame(cpu, bus, ppu, tick)} :
           /\ cpu' = r.cpu
           /\ bus' = r.bus
           /\ ppu' = r.ppu
           /\ tick' = r.tick
           /\ raised' = r.exc
           /\ ret' = r.ret
           /\ hist' = [hist EXCEPT !.steps = @ + r.n, !.frames = @ + 1,
                                   !.n = r.n, !.dots = r.dots,
                                   !.target = r.target, !.exited = r.exited]
    /\ op' = Op("step_frame", "", 0, 0)
    /\ pre' = Pre
    /\ UNCHANGED gui
    /\ UNCHANGED cart

Next ==
    \/ \E f \in Files : LoadRom(f)
    \/ Reset
    \/ CpuReset
    \/ CpuStep
    \/ StepFrame

Spec == Init /\ [][Next]_vars

-----------------------------------------------------------------------------
(* The bus on its own: nes.bus.cpu_write and nes.bus.cpu_read called by a host *)

\* PRG buffers of 16384, 5 and 0 bytes
BusFiles == {ROM_TEST, ROM_TRUNC, ROM_EMPTY}

\* the ends of every region of the map, of its mirrors, an address above 16
\* bits and two below zero (0 - 65535 is 1 and 0 - 49129 is 0x4017 after masking)
BusAddrs == {0 - 65535, 0 - 49129,
             0, 1, 2047, 2048, 2049, 4097, 6145, 8191,
             8192, 8193, 8199, 8200, 8201, 12289, 16383,
             16384, 16385, 16407, 16408, 16415, 16416, 24576, 32767,
             32768, 32772, 32773, 49151, 49152, 49156, 65532, 65535, 65537}

WriteAddrs == {0 - 49129, 1, 2049, 8191, 8193, 16377, 16384, 16407, 16408, 16416,
               32767, 32768, 65537}

\* 421 is 0x1A5 and 0 - 91 is ...FFA5: cpu_write keeps the low byte
BusValues == {66, 421, 0 - 91}

\* the console after SamsoftNES() and nes.load_rom(path of a file of files)
InitLoaded(files) ==
    /\ \E f \in files : \E r \in {NES_load_rom(f, PPU)} :
           /\ r.ok
           /\ cart = r.cart
           /\ bus = r.bus
           /\ cpu = r.cpu
           /\ ppu = r.ppu
           /\ tick = r.tick
           /\ op = Op("load_rom", f.name, 0, 0)
    /\ raised = "none"
    /\ ret = TRUE
    /\ pre = None
    /\ hist = [Hist0 EXCEPT !.loads = 1]
    /\ gui = None

InitBus == InitLoaded(BusFiles)

\* nes.bus.cpu_write(addr, value)
BusWrite(addr, value) ==
    /\ hist.writes < MaxWrites
    /\ \E w \in {cpu_write(bus, addr, value)} :
           /\ bus' = w.bus
           /\ raised' = w.exc
    /\ hist' = [NoFrame(hist) EXCEPT !.writes = @ + 1]
    /\ ret' = None
    /\ op' = Op("cpu_write", "", addr, value)
    /\ pre' = Pre
    /\ UNCHANGED gui
    /\ UNCHANGED <<cart, cpu, ppu, tick>>

\* nes.bus.cpu_read(addr)
BusRead(addr) ==
    /\ \E v \in {cpu_read(bus, addr)} :
           /\ ret' = IF v = IndexError THEN None ELSE v
           /\ raised' = IF v = IndexError THEN "IndexError" ELSE "none"
    /\ hist' = NoFrame(hist)
    /\ op' = Op("cpu_read", "", addr, 0)
    /\ pre' = Pre
    /\ UNCHANGED gui
    /\ UNCHANGED <<cart, bus, cpu, ppu, tick>>

NextBus ==
    \/ \E addr \in WriteAddrs, value \in BusValues : BusWrite(addr, value)
    \/ \E addr \in BusAddrs : BusRead(addr)

SpecBus == InitBus /\ [][NextBus]_vars

-----------------------------------------------------------------------------
(* Frames of programs that keep running: step_frame and cpu.step after a load *)

InitFrame == InitLoaded(FrameFiles)

NextFrame ==
    \/ StepFrame
    \/ CpuStep

SpecFrame == InitFrame /\ [][NextFrame]_vars

-----------------------------------------------------------------------------
(* One instruction of every opcode byte: the host writes a program of three
   bytes at $0000-$0002 of the RAM and runs the CPU *)

\* empty.nes has no PRG bytes, so its reset vector reads $0000; ff.nes starts at
\* $FFFF and reaches $0000 with its first step
OpsFiles == {ROM_EMPTY, ROM_FF}

Opcodes == 0..(BYTE - 1)

Operands == {0, 66, 128}

\* the opcodes that end in _set_zn on a register they do not load from memory
RegOps == {OP_TAX, OP_TAY, OP_INX, OP_INY, OP_DEX, OP_DEY}

\* Every opcode byte with each operand and BRK behind it; a load of a value at
\* an end of the byte range followed by a register instruction; two register
\* instructions and BRK.
Programs ==
    {<<o, v, OP_BRK>> : o \in Opcodes, v \in Operands}
    \cup {<<o, v, t>> : o \in {OP_LDA, OP_LDX, OP_LDY}, v \in {0, 1, 127, 128, 255}, t \in RegOps}
    \cup {<<o, t, OP_BRK>> : o \in RegOps, t \in RegOps}

\* SamsoftNES(); nes.load_rom(path); nes.bus.cpu_write(i, prog[i]) for i = 0, 1, 2
InitOps ==
    /\ \E f \in OpsFiles, prog \in Programs :
       \E r \in {NES_load_rom(f, PPU)} :
       \E w \in {cpu_write(cpu_write(cpu_write(r.bus, 0, prog[1]).bus, 1, prog[2]).bus,
                            2, prog[3])} :
           /\ cart = r.cart
           /\ bus = w.bus
           /\ cpu = r.cpu
           /\ ppu = r.ppu
           /\ tick = r.tick
           /\ op = Op("cpu_write", "", 2, prog[3])
    /\ raised = "none"
    /\ ret = None
    /\ pre = Pre
    /\ hist = [Hist0 EXCEPT !.loads = 1, !.writes = 3]
    /\ gui = None

NextOps ==
    \/ CpuStep
    \/ StepFrame

SpecOps == InitOps /\ [][NextOps]_vars

-----------------------------------------------------------------------------
(* The cartridge under every call that follows a load *)

CartFiles == {ROM_TEST, ROM_XREG, ROM_TRUNC}

\* the first PRG address, the first of the 16 KiB mirror, the last, and one
\* RAM address
CartWriteAddrs == {17, 32768, 49152, 65535}

CartValues == {66}

InitCart == InitLoaded(CartFiles)

NextCart ==
    \/ \E addr \in CartWriteAddrs, value \in CartValues : BusWrite(addr, value)
    \/ CpuStep
    \/ StepFrame
    \/ Reset

SpecCart == InitCart /\ [][NextCart]_vars

-----------------------------------------------------------------------------
(* The picture unit called by a host: nes.ppu.render_frame between frames *)

MaxRenders == 3

\* ticks at both ends of each of the four patterns, and of the second round
RenderTicks == {1, 59, 60, 119, 120, 179, 180, 239, 240}

PpuFiles == {ROM_TEST, ROM_XREG}

InitPpu == InitLoaded(PpuFiles)

\* nes.ppu.render_frame(t)
RenderFrame(t) ==
    /\ ppu.frame_count < MaxRenders
    /\ ppu' = render_frame(ppu, t)
    /\ ret' = ppu'.frame
    /\ raised' = "none"
    /\ hist' = NoFrame(hist)
    /\ op' = Op("render_frame", "", 0, t)
    /\ pre' = Pre
    /\ UNCHANGED gui
    /\ UNCHANGED <<cart, bus, cpu, tick>>

NextPpu ==
    \/ \E t \in RenderTicks : RenderFrame(t)
    \/ StepFrame
    \/ CpuStep

SpecPpu == InitPpu /\ [][NextPpu]_vars

-----------------------------------------------------------------------------
(* The flag bytes of the header: a file with header[6] = h6, header[7] = h7 *)

FlagSamples == {0, 1, 15, 16, 31, 128, 240, 255}

\* every value of one flag byte with the samples of the other
FlagPairs == {p \in (0..(BYTE - 1)) \X (0..(BYTE - 1)) :
                 p[1] \in FlagSamples \/ p[2] \in FlagSamples}

\* no PRG and no CHR bank: the program counter starts at $0000
FlagsRom(h6, h7) == Rom("flags.nes", Header(0, 0, h6, h7), 0, At(0, <<>>), 0)

\* SamsoftNES(); nes.load_rom(path of FlagsRom(h6, h7))
InitHeader ==
    /\ \E p \in FlagPairs : \E r \in {NES_load_rom(FlagsRom(p[1], p[2]), PPU)} :
           /\ cart = r.cart
           /\ bus = r.bus
           /\ cpu = r.cpu
           /\ ppu = r.ppu
           /\ tick = r.tick
           /\ ret = r.ok
           /\ op = Op("load_rom", "flags.nes", p[1], p[2])
    /\ raised = "none"
    /\ pre = None
    /\ hist = [Hist0 EXCEPT !.loads = 1]
    /\ gui = None

NextHeader ==
    \/ CpuStep
    \/ Reset

SpecHeader == InitHeader /\ [][NextHeader]_vars

-----------------------------------------------------------------------------
(* The dot and scanline counters under nes.ppu.step() called by a host; the
   counters wrap, so the calls need no bound *)

\* nes.ppu.step()
PpuStep ==
    /\ ppu' = PPU_step(ppu)
    /\ ret' = None
    /\ raised' = "none"
    /\ hist' = NoFrame(hist)
    /\ op' = Op("ppu.step", "", 0, 0)
    /\ pre' = Pre
    /\ UNCHANGED gui
    /\ UNCHANGED <<cart, bus, cpu, tick>>

NextDots == PpuStep

SpecDots == InitCore /\ [][NextDots]_vars

-----------------------------------------------------------------------------
(* Instructions at the top of the address space: the reset vector is $FFFE, so
   the first opcode is fetched at $FFFE, the next byte at $FFFF, and the bytes
   after it at $0000-$0002 of the RAM, where the host wrote a program *)

\* the opcodes of the table and one byte outside it
EdgeOpcodes == Implemented \cup {255}

\* the byte at $FFFF: an operand, or the opcode after a one-byte instruction
EdgeOperands == {0, 66, OP_JMP, OP_LDA, OP_NOP, 254}

\* one PRG bank of BRK with the vector $FFFE and the bytes o, v at $FFFE, $FFFF
EdgeRom(o, v) == Rom("edge.nes", Header(1, 0, 0, 0), PRG_CHUNK,
                     At(VEC_AT, <<254, 255, o, v>>), OP_BRK)

\* register instructions at the ends of the byte range, a store of each
\* register, a jump to itself, and the high byte $FF of a jump to $FFFE
EdgePrograms ==
    {<<OP_LDX, 255, OP_INX>>, <<OP_LDY, 255, OP_INY>>, <<OP_LDX, 0, OP_DEX>>,
     <<OP_LDY, 0, OP_DEY>>, <<OP_JMP, 0, 0>>, <<255, OP_STA, 1>>}

\* SamsoftNES(); nes.load_rom(path); nes.bus.cpu_write(i, prog[i]) for i = 0, 1, 2
InitEdge ==
    /\ \E o \in EdgeOpcodes, v \in EdgeOperands, prog \in EdgePrograms :
       \E r \in {NES_load_rom(EdgeRom(o, v), PPU)} :
       \E w \in {cpu_write(cpu_write(cpu_write(r.bus, 0, prog[1]).bus, 1, prog[2]).bus,
                            2, prog[3])} :
           /\ cart = r.cart
           /\ bus = w.bus
           /\ cpu = r.cpu
           /\ ppu = r.ppu
           /\ tick = r.tick
           /\ op = Op("cpu_write", "", 2, prog[3])
    /\ raised = "none"
    /\ ret = None
    /\ pre = Pre
    /\ hist = [Hist0 EXCEPT !.loads = 1, !.writes = 3]
    /\ gui = None

NextEdge ==
    \/ CpuStep
    \/ Reset

SpecEdge == InitEdge /\ [][NextEdge]_vars

-----------------------------------------------------------------------------
(* nes.reset() of a console whose RAM, PPU and APU registers hold bytes the
   host or the program wrote and whose picture unit has stepped *)

ResetFiles == {ROM_XREG, ROM_AREG}

\* a byte of the RAM, a PPU register and an APU register
ResetWriteAddrs == {1, 8193, 16407}

ResetValues == {66}

InitReset == InitLoaded(ResetFiles)

NextReset ==
    \/ \E addr \in ResetWriteAddrs, value \in ResetValues : BusWrite(addr, value)
    \/ StepFrame
    \/ CpuStep
    \/ Reset

SpecReset == InitReset /\ [][NextReset]_vars

-----------------------------------------------------------------------------
(* NESEmulatorGUI: the Tk thread runs the handlers of the keys and menus, and
   every thread start_emulation creates runs emulation_loop.  The threads
   interleave between the iterations of the loops; nothing in the source
   orders them otherwise. *)

MaxKeys == 3         \* handlers of keys the Tk thread runs

HostFiles == {ROM_EMPTY}

\* A thread of emulation_loop: at "while" it is about to test the condition of
\* emulation_loop, at "frame" it is inside the loop of step_frame with its
\* target_cycles computed, at "exited" it has returned.
Thread(at, target) == [at |-> at, target |-> target]

\* the fields of NESEmulatorGUI and of its console after __init__; joining: the
\* Tk thread is inside emulation_thread.join(timeout=1); keys: the handlers
\* run so far.  emulation_thread is the last of threads.
NESEmulatorGUI ==
    [running |-> FALSE, paused |-> FALSE, stop_emulation |-> FALSE,
     threads |-> <<>>, joining |-> FALSE, keys |-> 0]

Alive(g) == {i \in DOMAIN g.threads : g.threads[i].at # "exited"}

\* the Tk thread is free to run the handler of one more key
KeyPressed == ~gui.joining /\ gui.keys < MaxKeys

\* NESEmulatorGUI.__init__: SamsoftNES(), then create_test_rom()
InitHost ==
    /\ \E r \in {NES_create_test_rom(PPU)} :
           /\ cart = r.cart
           /\ bus = r.bus
           /\ cpu = r.cpu
           /\ ppu = r.ppu
           /\ tick = r.tick
    /\ raised = "none"
    /\ ret = None
    /\ op = Op("create_test_rom", "", 0, 0)
    /\ pre = None
    /\ hist = Hist0
    /\ gui = NESEmulatorGUI

\* F5
StartEmulation ==
    /\ KeyPressed
    /\ gui' = IF gui.running THEN [gui EXCEPT !.keys = @ + 1]
              ELSE [gui EXCEPT !.running = TRUE, !.paused = FALSE,
                               !.stop_emulation = FALSE,
                               !.threads = Append(@, Thread("while", 0)),
                               !.keys = @ + 1]
    /\ op' = Op("start_emulation", "", 0, 0)
    /\ pre' = Pre
    /\ raised' = "none"
    /\ ret' = None
    /\ UNCHANGED <<cart, bus, cpu, ppu, tick, hist>>

\* F6
PauseEmulation ==
    /\ KeyPressed
    /\ gui' = IF gui.running THEN [gui EXCEPT !.paused = ~@, !.keys = @ + 1]
              ELSE [gui EXCEPT !.keys = @ + 1]
    /\ op' = Op("pause_emulation", "", 0, 0)
    /\ pre' = Pre
    /\ raised' = "none"
    /\ ret' = None
    /\ UNCHANGED <<cart, bus, cpu, ppu, tick, hist>>

\* F7, up to the join
StopEmulationFunc ==
    /\ KeyPressed
    /\ gui' = [gui EXCEPT !.running = FALSE, !.paused = FALSE, !.stop_emulation = TRUE,
                          !.joining = TRUE, !.keys = @ + 1]
    /\ op' = Op("stop_emulation_func", "", 0, 0)
    /\ pre' = Pre
    /\ raised' = "none"
    /\ ret' = None
    /\ UNCHANGED <<cart, bus, cpu, ppu, tick, hist>>

\* reset_emulation, which leaves the fields g in the frontend
ResetEmulationTo(g) ==
    /\ \E z \in {NES_reset(cpu, bus, ppu)} :
           /\ cpu' = z.cpu
           /\ ppu' = z.ppu
           /\ tick' = z.tick
    /\ gui' = g
    /\ hist' = [NoFrame(hist) EXCEPT !.resets = @ + 1, !.steps = 0, !.frames = 0]
    /\ op' = Op("reset_emulation", "", 0, 0)
    /\ pre' = Pre
    /\ raised' = "none"
    /\ ret' = None
    /\ UNCHANGED <<cart, bus>>

\* the join returns because there is no thread or the thread has exited;
\* stop_emulation_func goes on with "self.reset_emulation()"
JoinReturns ==
    /\ gui.joining
    /\ Len(gui.threads) \notin Alive(gui)
    /\ ResetEmulationTo([gui EXCEPT !.joining = FALSE])

\* the join returns after its second while the thread is still running
JoinTimesOut ==
    /\ gui.joining
    /\ Len(gui.threads) \in Alive(gui)
    /\ ResetEmulationTo([gui EXCEPT !.joining = FALSE])

\* Ctrl+R
ResetEmulation ==
    /\ KeyPressed
    /\ ResetEmulationTo([gui EXCEPT !.keys = @ + 1])

\* Ctrl+O with the file f chosen in the dialog
OpenRom(f) ==
    /\ KeyPressed
    /\ \E r \in {NES_load_rom(f, ppu)} :
           /\ cart' = IF r.ok THEN r.cart ELSE cart
           /\ bus'  = IF r.ok THEN r.bus ELSE bus
           /\ cpu'  = IF r.ok THEN r.cpu ELSE cpu
           /\ ppu'  = IF r.ok THEN r.ppu ELSE ppu
           /\ tick' = IF r.ok THEN r.tick ELSE tick
           /\ ret'  = r.ok
           /\ hist' = IF r.ok
                      THEN [NoFrame(hist) EXCEPT !.loads = @ + 1, !.steps = 0, !.frames = 0]
                      ELSE [NoFrame(hist) EXCEPT !.loads = @ + 1]
    /\ gui' = [gui EXCEPT !.keys = @ + 1]
    /\ raised' = "none"
    /\ op' = Op("load_rom", f.name, 0, 0)
    /\ pre' = Pre

\* emulation_loop of thread i tests "while not self.stop_emulation"; when it
\* goes on and the console runs, it enters step_frame and computes target_cycles
LoopTest(i) ==
    /\ gui.threads[i].at = "while"
    /\ \/ /\ gui.stop_emulation
          /\ gui' = [gui EXCEPT !.threads[i].at = "exited"]
          /\ UNCHANGED hist
       \/ /\ ~gui.stop_emulation
          /\ gui.running /\ ~gui.paused
          /\ hist.frames < MaxFrames
          /\ gui' = [gui EXCEPT !.threads[i] = Thread("frame", cpu.cycles + FRAME_CYCLES)]
          /\ hist' = [hist EXCEPT !.frames = @ + 1]
    /\ op' = Op("emulation_loop", "", i, 0)
    /\ pre' = Pre
    /\ raised' = "none"
    /\ ret' = None
    /\ UNCHANGED <<cart, bus, cpu, ppu, tick>>

\* one iteration of the while loop of step_frame in thread i; an exception
\* leaves step_frame and is caught by emulation_loop
FrameStep(i) ==
    /\ gui.threads[i].at = "frame"
    /\ LoopCond(Loop(cpu, bus, ppu), gui.threads[i].target)
    /\ \E m \in {LoopBody(Loop(cpu, bus, ppu))} :
           /\ cpu' = m.cpu
           /\ bus' = m.bus
           /\ ppu' = m.ppu
           /\ raised' = m.exc
           /\ gui' = IF m.exc = "none" THEN gui
                     ELSE [gui EXCEPT !.threads[i].at = "while"]
    /\ hist' = [hist EXCEPT !.steps = @ + 1]
    /\ op' = Op("step_frame.loop", "", i, 0)
    /\ pre' = Pre
    /\ ret' = None
    /\ UNCHANGED <<cart, tick>>

\* the loop condition is false: "self.tick += 1; return render_frame(self.tick)"
FrameEnd(i) ==
    /\ gui.threads[i].at = "frame"
    /\ ~LoopCond(Loop(cpu, bus, ppu), gui.threads[i].target)
    /\ tick' = tick + 1
    /\ ppu' = render_frame(ppu, tick + 1)
    /\ ret' = ppu'.frame
    /\ gui' = [gui EXCEPT !.threads[i].at = "while"]
    /\ op' = Op("step_frame", "", i, 0)
    /\ pre' = Pre
    /\ raised' = "none"
    /\ UNCHANGED <<cart, bus, cpu, hist>>

NextHost ==
    \/ StartEmulation
    \/ PauseEmulation
    \/ StopEmulationFunc
    \/ JoinReturns
    \/ JoinTimesOut
    \/ ResetEmulation
    \/ \E f \in HostFiles : OpenRom(f)
    \/ \E i \in DOMAIN gui.threads : LoopTest(i)
    \/ \E i \in DOMAIN gui.threads : FrameStep(i)
    \/ \E i \in DOMAIN gui.threads : FrameEnd(i)

SpecHost == InitHost /\ [][NextHost]_vars

-----------------------------------------------------------------------------
(* SamsoftEmuNESGUI of v0.x.py, the frontend of the stub NES: the Tk thread
   runs the menu commands, every thread run_emulator creates runs
   emulation_loop *)

StubRoms == {"a.nes", "b.nes"}

\* the fields of SamsoftEmuNESGUI after __init__.  threads: where each thread
\* of emulation_loop is, "start" before "self.emulator = NES(...)", "while" at
\* the test of the loop condition, "exited" after it returned; frame_count:
\* that of self.emulator, None before there is one; keys: the commands run.
SamsoftEmuNESGUI ==
    [rom_path |-> "", is_running |-> FALSE, is_paused |-> FALSE,
     frame_count |-> None, threads |-> <<>>, keys |-> 0]

\* the threads of emulation_loop that have not returned
Looping(g) == {i \in DOMAIN g.threads : g.threads[i] # "exited"}

\* SamsoftEmuNESGUI(root): no console of ultranesv0.py is involved
InitStub ==
    /\ cart = None
    /\ bus = None
    /\ cpu = None
    /\ ppu = PPU
    /\ tick = 0
    /\ raised = "none"
    /\ ret = None
    /\ op = Op("init", "", 0, 0)
    /\ pre = None
    /\ hist = Hist0
    /\ gui = SamsoftEmuNESGUI

\* the menu command name leaves the fields g
Command(name, g) ==
    /\ gui' = [g EXCEPT !.keys = @ + 1]
    /\ op' = Op(name, "", 0, 0)
    /\ UNCHANGED <<cart, bus, cpu, ppu, tick, raised, ret, pre, hist>>

\* File > Open ROM with the file rom chosen
open_rom(rom) ==
    /\ gui.keys < MaxKeys
    /\ Command("open_rom", [gui EXCEPT !.rom_path = rom])

\* Emulation > Run: a running emulator is only unpaused
run_emulator ==
    /\ gui.keys < MaxKeys
    /\ Command("run_emulator",
               IF gui.is_running THEN [gui EXCEPT !.is_paused = FALSE]
               ELSE [gui EXCEPT !.is_running = TRUE, !.is_paused = FALSE,
                                !.threads = Append(@, "start")])

\* Emulation > Pause
pause_emulator ==
    /\ gui.keys < MaxKeys
    /\ Command("pause_emulator", [gui EXCEPT !.is_paused = TRUE])

\* Emulation > Stop
stop_emulator ==
    /\ gui.keys < MaxKeys
    /\ Command("stop_emulator", [gui EXCEPT !.is_running = FALSE])

\* thread i: "self.emulator = NES(self.rom_path); self.emulator.load_rom(...)"
emulation_loop_enter(i) ==
    /\ gui.threads[i] = "start"
    /\ gui' = [gui EXCEPT !.threads[i] = "while", !.frame_count = 0]
    /\ op' = Op("emulation_loop", "", i, 0)
    /\ UNCHANGED <<cart, bus, cpu, ppu, tick, raised, ret, pre, hist>>

\* thread i: "while self.is_running and not self.is_paused" and, when it holds,
\* one self.emulator.step(0); when it does not, the thread returns
emulation_loop_test(i) ==
    /\ gui.threads[i] = "while"
    /\ \/ /\ gui.is_running /\ ~gui.is_paused
          /\ gui.frame_count < MaxFrames
          /\ gui' = [gui EXCEPT !.frame_count = @ + 1]
          /\ op' = Op("emulator.step", "", i, 0)
       \/ /\ ~(gui.is_running /\ ~gui.is_paused)
          /\ gui' = [gui EXCEPT !.threads[i] = "exited"]
          /\ op' = Op("emulation_loop", "", i, 0)
    /\ UNCHANGED <<cart, bus, cpu, ppu, tick, raised, ret, pre, hist>>

NextStub ==
    \/ \E rom \in StubRoms : open_rom(rom)
    \/ run_emulator
    \/ pause_emulator
    \/ stop_emulator
    \/ \E i \in DOMAIN gui.threads : emulation_loop_enter(i)
    \/ \E i \in DOMAIN gui.threads : emulation_loop_test(i)

SpecStub == InitStub /\ [][NextStub]_vars

-----------------------------------------------------------------------------
(* Memory map *)

\* the addresses of [0, 0x2000) that a + 0x800*k reaches from a
RamMirrors(a) == {(a % RAM_SIZE) + RAM_SIZE * k : k \in 0..3}

\* the addresses of [0x2000, 0x4000) that share a register with a
PpuMirrors(a) == {RAM_END + (a % PPU_REGS) + PPU_REGS * k : k \in 0..((PPU_END - RAM_END) \div PPU_REGS - 1)}

\* C1: after any sequence of cpu_write calls every address of [0, 0x2000) reads
\* the same byte as each of its mirrors a + 0x800*k, and a byte written through
\* one mirror is read back through all four.
RamMirrored ==
    /\ \A a \in BusAddrs : (a >= 0 /\ a < RAM_END) =>
           \A m \in RamMirrors(a) : cpu_read(bus, a) = cpu_read(bus, m)
    /\ (op.name = "cpu_write" /\ op.addr >= 0 /\ op.addr < RAM_END) =>
           \A m \in RamMirrors(op.addr) : cpu_read(bus, m) = op.value % BYTE

\* a byte written through the second mirror, after a first write, is read at the base
RamMirroredSeen ==
    /\ op.name = "cpu_write"
    /\ op.addr = RAM_SIZE + 1
    /\ hist.writes = 2
    /\ cpu_read(bus, 1) = 66
    /\ cpu_read(bus, 3 * RAM_SIZE + 1) = 66

\* prg_rom[i % L] as Python computes it: no value when L is 0
PrgAt(b, i) ==
    IF b.cart.prg_rom.len = 0 THEN ZeroDivisionError
    ELSE BlobIndex(b.cart.prg_rom, i % b.cart.prg_rom.len)

\* C2: with a PRG buffer of length L, 0 < L < 0x8000, cpu_read(0x8000 + i) is
\* prg_rom[i mod L] for the i of [0, 0x8000), whatever was written before.
PrgMirrored ==
    (0 < bus.cart.prg_rom.len /\ bus.cart.prg_rom.len < PRG_BASE) =>
        \A a \in BusAddrs : (a >= PRG_BASE /\ a < ADDR_SPACE) =>
            cpu_read(bus, a) = PrgAt(bus, a - PRG_BASE)

\* the first byte of a 16 KiB image read at 0xC000 after a write to 0x8000
PrgMirroredSeen ==
    /\ bus.cart.prg_rom.len = PRG_CHUNK
    /\ op.name = "cpu_read"
    /\ op.addr = PRG_BASE + PRG_CHUNK
    /\ ret = OP_LDA
    /\ hist.writes > 0

\* C2 as the specification words it: for every L < 0x8000, L = 0 included
PrgMirroredAnyLength ==
    bus.cart.prg_rom.len < PRG_BASE =>
        \A a \in BusAddrs : (a >= PRG_BASE /\ a < ADDR_SPACE) =>
            cpu_read(bus, a) = PrgAt(bus, a - PRG_BASE)

\* C3: after any sequence of cpu_write calls every address a of [0x2000, 0x4000)
\* reads the same byte as 0x2000 + (a mod 8), and a byte written at a is read
\* back at every address of the window that has the same a mod 8.
PpuRegsMirrored ==
    /\ \A a \in BusAddrs : (a >= RAM_END /\ a < PPU_END) =>
           cpu_read(bus, a) = cpu_read(bus, RAM_END + (a % PPU_REGS))
    /\ (op.name = "cpu_write" /\ op.addr >= RAM_END /\ op.addr < PPU_END) =>
           \A m \in PpuMirrors(op.addr) : cpu_read(bus, m) = op.value % BYTE

\* a byte written at 0x3FF9 is read at 0x2001 and 0x2009
PpuRegsMirroredSeen ==
    /\ op.name = "cpu_write"
    /\ op.addr = PPU_END - 7
    /\ op.value = 421
    /\ cpu_read(bus, RAM_END + 1) = 165
    /\ cpu_read(bus, RAM_END + 9) = 165

-----------------------------------------------------------------------------
(* CPU *)

\* the last call ran CPU6502.reset: directly, through nes.reset, or through a load
ResetCalled ==
    /\ cpu # None
    /\ \/ op.name \in {"cpu.reset", "reset", "create_test_rom"}
       \/ op.name = "load_rom" /\ ret = TRUE

\* C4: CPU.reset called in any CPU state leaves PC at the word read from
\* 0xFFFC/0xFFFD, A = X = Y = 0, SP = 0xFD, P = 0x24, cycles = 7,
\* total_cycles = 0 and halted = false.
ResetState ==
    ResetCalled =>
        /\ cpu.PC = cpu_read(bus, 65533) * 256 + cpu_read(bus, 65532)
        /\ cpu.A = 0 /\ cpu.X = 0 /\ cpu.Y = 0
        /\ cpu.SP = 253
        /\ cpu.P = 36
        /\ cpu.cycles = 7
        /\ cpu.total_cycles = 0
        /\ cpu.halted = FALSE

\* cpu.reset called on a halted CPU that holds 0x42 in A
ResetStateSeen ==
    /\ op.name = "cpu.reset"
    /\ pre # None
    /\ pre.halted
    /\ pre.A = 66
    /\ cpu.A = 0
    /\ ~cpu.halted

\* the bytes A9 42 EA 00 are at the address the reset vector points to
TestProgramAtVector ==
    /\ bus # None
    /\ \E v \in {cpu_read(bus, 65533) * 256 + cpu_read(bus, 65532)} :
           /\ cpu_read(bus, v) = 169
           /\ cpu_read(bus, v + 1) = 66
           /\ cpu_read(bus, v + 2) = 234
           /\ cpu_read(bus, v + 3) = 0

\* the last call was cpu.step, the k-th CPU step since the reset
StepDone(k) == op.name = "cpu.step" /\ hist.steps = k

\* C5: with A9 42 EA 00 at the reset vector's target, after reset: step 1 leaves
\* A = 0x42 with Zero and Negative clear; step 2 (NOP) changes nothing but PC,
\* which moves on by one, and the cycle counters; step 3 (BRK) leaves halted set.
TestProgramSteps ==
    /\ [](TestProgramAtVector =>
             /\ StepDone(1) => (cpu.A = 66 /\ Bit(cpu.P, 1) = 0 /\ Bit(cpu.P, 7) = 0)
             /\ StepDone(3) => cpu.halted)
    /\ [][(TestProgramAtVector /\ hist.steps = 1 /\ op'.name = "cpu.step") =>
              cpu' = [cpu EXCEPT !.PC = cpu.PC + 1,
                                 !.cycles = cpu.cycles + 2,
                                 !.total_cycles = cpu.total_cycles + cpu.cycles + 2]]_vars

\* the third step of the test program has halted the CPU with 0x42 in A
TestProgramStepsSeen ==
    /\ TestProgramAtVector
    /\ StepDone(3)
    /\ cpu.halted
    /\ cpu.A = 66
    /\ cpu.PC = 32772

\* C5 as the specification words it: step 2 changes nothing but the cycle count
TestProgramNopKeepsState ==
    [][(TestProgramAtVector /\ hist.steps = 1 /\ op'.name = "cpu.step") =>
           cpu' = [cpu EXCEPT !.cycles = cpu'.cycles,
                              !.total_cycles = cpu'.total_cycles]]_vars

\* C6: halted becomes true exactly when opcode 0x00 is executed; a halted CPU
\* stays halted through cpu.step and step_frame; halted becomes false again
\* only through cpu.reset, nes.reset or a load.
HaltedTerminal ==
    [][(cpu # None /\ cpu' # None) =>
           /\ (~cpu.halted /\ cpu'.halted) =>
                  /\ op'.name \in {"cpu.step", "step_frame"}
                  /\ cpu_read(bus', (cpu'.PC - 1) % 65536) = 0
           /\ (~cpu.halted /\ op'.name = "cpu.step" /\ cpu_read(bus, cpu.PC) = 0) =>
                  cpu'.halted
           /\ (cpu.halted /\ op'.name \in {"cpu.step", "step_frame"}) => cpu'.halted
           /\ (cpu.halted /\ ~cpu'.halted) =>
                  \/ op'.name \in {"cpu.reset", "reset"}
                  \/ op'.name = "load_rom" /\ ret' = TRUE]_vars

\* cpu.step called on a CPU that a BRK halted before leaves it halted
HaltedTerminalSeen ==
    /\ op.name = "cpu.step"
    /\ pre # None
    /\ pre.halted
    /\ cpu.halted
    /\ cpu_read(bus, (cpu.PC - 1) % 65536) = 0

-----------------------------------------------------------------------------
(* step_frame *)

\* C7: every step_frame call returns, its loop having run at most 14890 CPU steps.
FrameTerminates ==
    op.name = "step_frame" => (hist.exited /\ hist.n <= 14890)

\* a frame of 14890 two-cycle instructions that did not halt
FrameTerminatesSeen ==
    /\ op.name = "step_frame"
    /\ hist.exited
    /\ hist.n = 14890
    /\ ~cpu.halted

\* cpu.cycles when the last step_frame call began
CyclesAtEntry == hist.target - 29780

\* C8: when step_frame returns with a cartridge loaded, the CPU is halted or
\* cpu.cycles has grown by at least 29780 and at most 29782 since the call began.
FrameBudget ==
    (op.name = "step_frame" /\ raised = "none" /\ cart # None) =>
        \/ cpu.halted
        \/ /\ cpu.cycles - CyclesAtEntry >= 29780
           /\ cpu.cycles - CyclesAtEntry <= 29782

\* a frame that overshot the budget by two cycles
FrameBudgetSeen ==
    /\ op.name = "step_frame"
    /\ raised = "none"
    /\ cart # None
    /\ ~cpu.halted
    /\ cpu.cycles - CyclesAtEntry = 29782

\* C9: step_frame called while the CPU is halted adds 1 to tick and returns the
\* frame rendered for the new tick; the CPU, the bus memory and the picture
\* unit's dot and scanline counters are unchanged and no step is executed.
HaltedFrame ==
    [][(op'.name = "step_frame" /\ cpu # None /\ cpu.halted) =>
           /\ tick' = tick + 1
           /\ ret' = [px \in SamplePixels |-> Pixel(tick + 1, px[1], px[2])]
           /\ ret' = ppu'.frame
           /\ cpu' = cpu
           /\ bus' = bus
           /\ ppu'.cycle = ppu.cycle
           /\ ppu'.scanline = ppu.scanline
           /\ hist'.n = 0
           /\ hist'.dots = 0]_vars

\* the second frame of a program that halted in the first
HaltedFrameSeen ==
    /\ op.name = "step_frame"
    /\ pre # None
    /\ pre.halted
    /\ cpu.halted
    /\ hist.n = 0
    /\ tick = 2
    /\ ret = [px \in SamplePixels |-> Pixel(2, px[1], px[2])]

\* C10: no call of cpu.step or step_frame raises, and cpu_read gives a byte in
\* 0..255 at every address, for every cartridge loaded.
NoRuntimeError ==
    /\ op.name \in {"cpu.step", "step_frame"} => raised = "none"
    /\ bus # None => \A a \in BusAddrs : cpu_read(bus, a) \in 0..255

-----------------------------------------------------------------------------
(* APU/IO window, masking, unmapped region *)

\* the addresses of [0x4000, 0x4020)
ApuWindow == APU_BASE..(APU_END - 1)

\* C11: a cpu_write(a, v) with a in 0x4000..0x401F raises nothing, cpu_read(a)
\* then gives v mod 256, and the byte read at every other address is as before.
ApuLinear ==
    [][(op'.name = "cpu_write" /\ op'.addr \in ApuWindow) =>
           /\ raised' = "none"
           /\ cpu_read(bus', op'.addr) = op'.value % BYTE
           /\ \A a \in BusAddrs : (a % ADDR_SPACE) # op'.addr =>
                  cpu_read(bus', a) = cpu_read(bus, a)]_vars

\* addr & 0xFFFF and value & 0xFF of Python integers, negative ones included
Mask16(addr) == addr % ADDR_SPACE

Mask8(value) == value % BYTE

\* C16: for every integer address, above 0xFFFF and below zero included,
\* cpu_read(addr) is cpu_read(addr mod 65536), cpu_write(addr, v) leaves the bus
\* and raises exactly as cpu_write(addr mod 65536, v mod 256) does, and the byte
\* it stores in RAM, a PPU register or an APU register is v mod 256.
AddrMasked ==
    [][/\ \A a \in BusAddrs \ (0..(ADDR_SPACE - 1)) :
              cpu_read(bus', a) = cpu_read(bus', Mask16(a))
       /\ op'.name = "cpu_write" =>
              /\ \E w \in {cpu_write(bus, Mask16(op'.addr), Mask8(op'.value))} :
                     bus' = w.bus /\ raised' = w.exc
              /\ Mask16(op'.addr) < APU_BASE + APU_REGS =>
                     /\ raised' = "none"
                     /\ cpu_read(bus', Mask16(op'.addr)) = Mask8(op'.value)]_vars

\* 0 - 91 written at 0 - 49129 is 0xA5 at 0x4017, after 66 written at 0x10001
\* or at 1 is read at 0x10001
AddrMaskedSeen ==
    /\ op.name = "cpu_write"
    /\ op.addr = 0 - 49129
    /\ op.value = 0 - 91
    /\ hist.writes = 2
    /\ cpu_read(bus, APU_BASE + 23) = 165
    /\ cpu_read(bus, ADDR_SPACE + 1) = 66

\* the addresses of [0x4020, 0x8000)
Unmapped == APU_END..(PRG_BASE - 1)

\* C17: every address of 0x4020..0x7FFF reads 0 after any sequence of writes,
\* and a cpu_write there raises nothing and changes no RAM byte, no PPU or APU
\* register and no cartridge byte.
UnmappedInert ==
    [][/\ \A a \in BusAddrs : a \in Unmapped => cpu_read(bus', a) = 0
       /\ (op'.name = "cpu_write" /\ op'.addr \in Unmapped) =>
              /\ raised' = "none"
              /\ bus' = bus
              /\ cart' = cart]_vars

\* a write at 0x4020 after a write of 66 that reached RAM
UnmappedInertSeen ==
    /\ op.name = "cpu_write"
    /\ op.addr = APU_END
    /\ op.value = 421
    /\ hist.writes = 2
    /\ cpu_read(bus, APU_END) = 0
    /\ cpu_read(bus, 1) = 66

-----------------------------------------------------------------------------
(* Loading *)

\* the file whose path the last call was given
FileOf(o) == CHOOSE f \in Files : f.name = o.file

\* the first four bytes of the file are not "NES\x1a"
BadMagic(f) == f.exists /\ Slice4(BlobRead(f.data, 0, HEADER_SIZE)) # MAGIC

\* C12: a load of a file whose first four bytes are not NES\x1A fails with the
\* invalid-format error (ValueError) without a cartridge, load_rom returns
\* False, and cartridge, bus, CPU and tick are as they were before the call.
BadMagicRejected ==
    [][(op'.name = "load_rom" /\ BadMagic(FileOf(op'))) =>
           /\ load_from_file(FileOf(op')).exc = "ValueError"
           /\ load_from_file(FileOf(op')).cart = None
           /\ ret' = FALSE
           /\ raised' = "none"
           /\ cart' = cart
           /\ bus' = bus
           /\ cpu' = cpu
           /\ tick' = tick]_vars

\* the load of bad.nes refused on a console whose test program has halted
BadMagicRejectedSeen ==
    /\ op.name = "load_rom"
    /\ op.file = "bad.nes"
    /\ ret = FALSE
    /\ cart # None
    /\ cart.name = "Test ROM"
    /\ cpu.halted
    /\ tick = 1

\* C13: after every load that returned True the cartridge has
\* prg_size = 16384 * header[4], chr_size = 8192 * header[5], and prg_rom and
\* chr_rom of exactly these lengths; a file that is shorter does not load.
LoadComplete ==
    (op.name = "load_rom" /\ ret = TRUE) =>
        /\ cart.prg_size = PRG_CHUNK * BlobIndex(FileOf(op).data, 4)
        /\ cart.chr_size = CHR_CHUNK * BlobIndex(FileOf(op).data, 5)
        /\ cart.prg_rom.len = cart.prg_size
        /\ cart.chr_rom.len = cart.chr_size

-----------------------------------------------------------------------------
(* Cartridge, unknown opcodes *)

\* C18: no cpu.step, step_frame, reset or cpu_write after a load changes
\* prg_rom, chr_rom or mapper of the cartridge, and a cpu_write at
\* 0x8000..0xFFFF raises nothing and leaves the whole bus as it was.
CartridgeImmutable ==
    [][op'.name \in {"cpu.step", "step_frame", "reset", "cpu_write"} =>
           /\ cart'.prg_rom = cart.prg_rom
           /\ cart'.chr_rom = cart.chr_rom
           /\ cart'.mapper = cart.mapper
           /\ bus'.cart = cart'
           /\ \A a \in BusAddrs : (a >= PRG_BASE /\ a < ADDR_SPACE) =>
                  cpu_read(bus', a) = cpu_read(bus, a)
           /\ (op'.name = "cpu_write" /\ Mask16(op'.addr) >= PRG_BASE) =>
                  /\ raised' = "none"
                  /\ bus' = bus]_vars

\* a write at 0x8000 after the test program ran to its BRK: the LDA opcode is
\* still read there
CartridgeImmutableSeen ==
    /\ op.name = "cpu_write"
    /\ op.addr = PRG_BASE
    /\ op.value = 66
    /\ cart.name = "test.nes"
    /\ cpu.halted
    /\ hist.steps > 0
    /\ cpu_read(bus, PRG_BASE) = OP_LDA

\* C19: a step of a CPU that is not halted on an opcode byte that is not in the
\* table raises nothing, moves PC by 1 (mod 65536), adds 2 to cycles, and leaves
\* A, X, Y, SP, P, halted and the whole bus as they were.
UnknownOpcodeNop ==
    [][(/\ op'.name = "cpu.step"
        /\ ~cpu.halted
        /\ cpu_read(bus, cpu.PC) \in Opcodes \ Implemented) =>
           /\ raised' = "none"
           /\ cpu'.PC = (cpu.PC + 1) % ADDR_SPACE
           /\ cpu'.cycles = cpu.cycles + UNKNOWN_COST
           /\ cpu'.A = cpu.A /\ cpu'.X = cpu.X /\ cpu'.Y = cpu.Y
           /\ cpu'.SP = cpu.SP /\ cpu'.P = cpu.P
           /\ cpu'.halted = cpu.halted
           /\ bus' = bus]_vars

\* the byte 0xFF stepped over at $FFFF: PC has wrapped to $0000
UnknownOpcodeNopSeen ==
    /\ op.name = "cpu.step"
    /\ cart.name = "ff.nes"
    /\ hist.steps = 1
    /\ cpu.PC = 0
    /\ cpu.cycles = RESET_CYCLES + UNKNOWN_COST
    /\ ~cpu.halted
    /\ raised = "none"

-----------------------------------------------------------------------------
(* Picture *)

\* C20: the frame render_frame(t) gives is the same from every state: from the
\* PPU as it is, with whatever frame buffer, dot and scanline counters, CPU
\* and bus, and from a PPU just constructed; so two calls with the same tick
\* return the same contents.
RenderDeterministic ==
    /\ \A t \in RenderTicks : render_frame(ppu, t).frame = render_frame(PPU, t).frame
    /\ op.name = "render_frame" =>
           /\ ret = render_frame(PPU, op.value).frame
           /\ ppu.frame = ret
    /\ (op.name = "step_frame" /\ raised = "none") =>
           ret = render_frame(PPU, tick).frame

\* the sine pattern of tick 120 drawn over the frame that step_frame left,
\* with the dot counter moved and the CPU halted
RenderDeterministicSeen ==
    /\ op.name = "render_frame"
    /\ op.value = 120
    /\ tick = 1
    /\ ppu.frame_count = 2
    /\ ppu.cycle > 0
    /\ cpu.halted
    /\ ret[<<16, 17>>] = <<SinWave(257), 255 - SinWave(257), 240>>

-----------------------------------------------------------------------------
(* Header flags, console reset, round trip *)

\* C21: for the flag bytes h6 and h7 of the file loaded the mapper is
\* (h6 div 16) + 16 * (h7 div 16), lies in 0..255, and is the mapper of the file
\* whose flag bytes have the same high nibbles and other low nibbles.
MapperNibbles ==
    (op.name = "load_rom" /\ op.file = "flags.nes") =>
        /\ ret = TRUE
        /\ cart.mapper = (op.addr \div 16) + 16 * (op.value \div 16)
        /\ cart.mapper \in 0..255
        /\ bus.cart.mapper = cart.mapper
        /\ \A l6, l7 \in {0, 9, 15} :
               load_from_file(FlagsRom(16 * (op.addr \div 16) + l6,
                                       16 * (op.value \div 16) + l7)).cart.mapper
               = cart.mapper

\* h6 = 0x1F and h7 = 0xFF give mapper 0xF1
MapperNibblesSeen ==
    /\ op.name = "load_rom"
    /\ op.file = "flags.nes"
    /\ op.addr = 31
    /\ op.value = 255
    /\ cart.mapper = 241

\* C22: after nes.reset() in any console state tick is 0, the frame counter of
\* the picture unit is 0 and nothing was raised; with a cartridge the CPU is in
\* its reset state, without one there is still no CPU and no bus.
ConsoleReset ==
    op.name = "reset" =>
        /\ raised = "none"
        /\ tick = 0
        /\ ppu.frame_count = 0
        /\ cart = None => (cpu = None /\ bus = None)
        /\ cart # None =>
               /\ cpu.A = 0 /\ cpu.X = 0 /\ cpu.Y = 0
               /\ cpu.SP = RESET_SP
               /\ cpu.P = RESET_P
               /\ cpu.PC = cpu_read(bus, RESET_VECTOR) + BYTE * cpu_read(bus, RESET_VECTOR + 1)
               /\ cpu.cycles = RESET_CYCLES
               /\ cpu.total_cycles = 0
               /\ cpu.halted = FALSE

\* a reset after a frame in which the program halted
ConsoleResetSeen ==
    /\ op.name = "reset"
    /\ pre # None
    /\ pre.halted
    /\ pre.A = 66
    /\ ppu.cycle > 0
    /\ tick = 0
    /\ cpu.cycles = RESET_CYCLES

-----------------------------------------------------------------------------
(* Picture unit timing *)

\* the dots since the top left corner of the frame
PpuPos(p) == p.scanline * DOTS + p.cycle

\* C24: the dot counter stays in 0..340 and the scanline counter in 0..261, and
\* a PPU.step moves the position scanline * 341 + dot to its successor modulo
\* 262 * 341: dot + 1, or dot 0 of the next scanline after dot 340, or dot 0 of
\* scanline 0 after the last; so 262 * 341 steps and no fewer lead back.
DotCounters ==
    /\ [](ppu.cycle \in 0..(DOTS - 1) /\ ppu.scanline \in 0..(SCANLINES - 1))
    /\ [][op'.name = "ppu.step" =>
              /\ PpuPos(ppu') = (PpuPos(ppu) + 1) % (SCANLINES * DOTS)
              /\ ppu'.cycle = (IF ppu.cycle = DOTS - 1 THEN 0 ELSE ppu.cycle + 1)
              /\ ppu'.scanline = (IF ppu.cycle < DOTS - 1 THEN ppu.scanline
                                  ELSE IF ppu.scanline = SCANLINES - 1 THEN 0
                                  ELSE ppu.scanline + 1)]_vars

\* the step from dot 340 of scanline 261 has led back to dot 0 of scanline 0
DotCountersSeen ==
    /\ op.name = "ppu.step"
    /\ ppu.cycle = 0
    /\ ppu.scanline = 0

\* C25: over every step_frame call the PPU.step calls made are 3 times the
\* CPU cycles consumed, cpu.cycles at exit minus cpu.cycles at entry.
FrameDotsPerCycle ==
    (op.name = "step_frame" /\ raised = "none" /\ cart # None) =>
        hist.dots = PPU_PER_CPU * (cpu.cycles - CyclesAtEntry)

\* C26: in a step_frame call that returns, the PPU.step calls made are exactly
\* 3 times the CPU.step calls made, the counters have moved by that many dots,
\* and render_frame ran once, for the new tick, giving the frame returned.
FrameDotsPerStep ==
    [][(op'.name = "step_frame" /\ raised' = "none") =>
           /\ hist'.dots = PPU_PER_CPU * hist'.n
           /\ PpuPos(ppu') = (PpuPos(ppu) + PPU_PER_CPU * hist'.n) % (SCANLINES * DOTS)
           /\ tick' = tick + 1
           /\ ppu'.frame_count = ppu.frame_count + 1
           /\ ppu'.frame = render_frame(ppu, tick').frame
           /\ ret' = ppu'.frame]_vars

\* a frame of thousands of steps that moved the scanline counter
FrameDotsPerStepSeen ==
    /\ op.name = "step_frame"
    /\ raised = "none"
    /\ hist.n > 9000
    /\ hist.dots = PPU_PER_CPU * hist.n
    /\ ppu.scanline > 0
    /\ ppu.frame_count = 2

-----------------------------------------------------------------------------
(* Cycle counters and flags *)

\* the opcode the step about to run fetches
Fetched == cpu_read(bus, cpu.PC)

\* C27: a CPU.step on a CPU that is not halted adds to total_cycles the value
\* cycles has at the end of the step; a step on a halted CPU leaves
\* total_cycles as it is.
TotalCycles ==
    [][op'.name = "cpu.step" =>
           /\ (~cpu.halted /\ raised' = "none") =>
                  cpu'.total_cycles = cpu.total_cycles + cpu'.cycles
           /\ cpu.halted => cpu'.total_cycles = cpu.total_cycles]_vars

\* two 2-cycle steps after reset: cycles 9 then 11, total_cycles 20
TotalCyclesSeen ==
    /\ op.name = "cpu.step"
    /\ hist.steps = 2
    /\ ~cpu.halted
    /\ cpu.cycles = RESET_CYCLES + 4
    /\ cpu.total_cycles = (RESET_CYCLES + 2) + (RESET_CYCLES + 4)

\* C27 as the specification words it: after each call of CPU.step, a halted
\* CPU included, total_cycles has grown by the cycles of the end of the step
TotalCyclesEveryStep ==
    [][op'.name = "cpu.step" =>
           cpu'.total_cycles = cpu.total_cycles + cpu'.cycles]_vars

\* C28: a CPU.step on a halted CPU adds 1 to cycles and changes nothing else:
\* not PC, A, X, Y, SP, P, halted or total_cycles, and not the bus; it raises
\* nothing.
HaltedStepIdle ==
    [][(op'.name = "cpu.step" /\ cpu.halted) =>
           /\ cpu' = [cpu EXCEPT !.cycles = @ + 1]
           /\ bus' = bus
           /\ raised' = "none"]_vars

\* the second step after the BRK at $0000
HaltedStepIdleSeen ==
    /\ op.name = "cpu.step"
    /\ pre.halted
    /\ cpu.halted
    /\ hist.steps = 3
    /\ cpu.PC = 1
    /\ cpu.cycles = RESET_CYCLES + BRK_COST + 2
    /\ cpu.total_cycles = RESET_CYCLES + BRK_COST

\* the cost the table gives an opcode
TableCost(o) ==
    IF o \in {OP_NOP, OP_LDA, OP_LDX, OP_LDY, OP_TAX, OP_TAY,
              OP_INX, OP_INY, OP_DEX, OP_DEY} THEN 2
    ELSE IF o \in {OP_STA, OP_STX, OP_STY, OP_JMP} THEN 3
    ELSE 7

\* C29: a step of a CPU that is not halted on an opcode of the table adds the
\* table cost to cycles: 2, 3 for the stores and JMP, 7 for BRK; and every
\* step adds at least 1, and no frame takes cycles back.
StepCosts ==
    [][/\ op'.name = "cpu.step" =>
              /\ (~cpu.halted /\ Fetched \in Implemented) =>
                     cpu'.cycles = cpu.cycles + TableCost(Fetched)
              /\ cpu'.cycles >= cpu.cycles + 1
       /\ op'.name = "step_frame" => cpu'.cycles >= cpu.cycles]_vars

\* STA $42 executed at $0000
StepCostsSeen ==
    /\ op.name = "cpu.step"
    /\ hist.steps = 1
    /\ cpu_read(bus, 0) = OP_STA
    /\ cpu_read(bus, 1) = 66
    /\ cpu.PC = 2
    /\ cpu.cycles = RESET_CYCLES + 3

\* the register an opcode that ends in _set_zn leaves its result in
ResultReg(o) ==
    IF o = OP_LDA THEN "A"
    ELSE IF o \in {OP_LDX, OP_TAX, OP_INX, OP_DEX} THEN "X"
    ELSE "Y"

\* C30: after LDA/LDX/LDY #imm, TAX, TAY, INX, INY, DEX, DEY bit 1 of P is set
\* exactly when the result register is 0, bit 7 exactly when bit 7 of the
\* result is set, and the bits 0, 2, 3, 4, 5, 6 of P are as before.
ZnFlags ==
    [][(/\ op'.name = "cpu.step"
        /\ ~cpu.halted
        /\ Fetched \in {OP_LDA, OP_LDX, OP_LDY} \cup RegOps) =>
           /\ raised' = "none"
           /\ (Bit(cpu'.P, 1) = 1) <=> (cpu'[ResultReg(Fetched)] = 0)
           /\ Bit(cpu'.P, 7) = Bit(cpu'[ResultReg(Fetched)], 7)
           /\ \A n \in {0, 2, 3, 4, 5, 6} : Bit(cpu'.P, n) = Bit(cpu.P, n)]_vars

\* INX on X = 0xFF: Negative was set, now Zero is set and Negative clear
ZnFlagsSeen ==
    /\ op.name = "cpu.step"
    /\ hist.steps = 2
    /\ pre.X = 255
    /\ cpu.X = 0
    /\ cpu.P = RESET_P + FLAG_Z

-----------------------------------------------------------------------------
(* C31 *)

\* the opcodes whose operand is one byte fetched at PC, after which PC is incremented
TwoByte == {OP_LDA, OP_LDX, OP_LDY, OP_STA, OP_STX, OP_STY}

\* the opcodes that fetch nothing after the opcode byte
OneByte == Opcodes \ (TwoByte \cup {OP_JMP})

RegistersInRange ==
    cpu # None =>
        /\ cpu.A \in 0..(BYTE - 1)
        /\ cpu.X \in 0..(BYTE - 1)
        /\ cpu.Y \in 0..(BYTE - 1)
        /\ cpu.SP \in 0..(BYTE - 1)
        /\ cpu.P \in 0..(BYTE - 1)
        /\ cpu.PC \in 0..(ADDR_SPACE - 1)

WrapStep ==
    (op'.name = "cpu.step" /\ ~cpu.halted) =>
        /\ (Fetched = OP_INX /\ cpu.X = 255) => cpu'.X = 0
        /\ (Fetched = OP_INY /\ cpu.Y = 255) => cpu'.Y = 0
        /\ (Fetched = OP_DEX /\ cpu.X = 0) => cpu'.X = 255
        /\ (Fetched = OP_DEY /\ cpu.Y = 0) => cpu'.Y = 255
        /\ (Fetched \in OneByte /\ cpu.PC = 65535) => cpu'.PC = 0
        /\ (Fetched \in TwoByte /\ cpu.PC = 65534) => cpu'.PC = 0
        /\ (Fetched \in TwoByte /\ cpu.PC = 65535) => cpu'.PC = 1

\* C31: in every state A, X, Y, SP and P are in 0..255 and PC is in 0..65535;
\* INX and INY of $FF give $00, DEX and DEY of $00 give $FF; a step that fetches
\* its opcode or its one-byte operand at $FFFF increments PC to $0000, and one
\* that fetches the opcode at $FFFF and an operand at $0000 ends at $0001.
RegistersWrap == []RegistersInRange /\ [][WrapStep]_vars

\* LDA #$42 was fetched at $FFFE and $FFFF, and the third step was INX of $FF
RegistersWrapSeen ==
    /\ op.name = "cpu.step" /\ hist.steps = 3
    /\ cpu.A = 66 /\ cpu.PC = 3
    /\ pre.X = 255 /\ cpu.X = 0

-----------------------------------------------------------------------------
(* C32 *)

\* the console holds the cartridge of Cartridge.create_test_rom
TestCartridge == cart # None /\ cart.name = "Test ROM"

\* byte i of a PRG buffer that is the program, filler, and the vector $8000 at
\* offsets at and at + 1
ProgramFillerVector(i, at) ==
    IF i < 4 THEN <<OP_LDA, 66, OP_NOP, OP_BRK>>[i + 1]
    ELSE IF i = at THEN 0
    ELSE IF i = at + 1 THEN 128
    ELSE OP_NOP

\* what the claim says of the console apart from the place of the vector
TestRomRuns ==
    /\ op.name = "create_test_rom" =>
           /\ cart.prg_rom.len = 16384
           /\ cpu_read(bus, 65532) = 0
           /\ cpu_read(bus, 65533) = 128
           /\ cpu.PC = 32768
    /\ (op.name = "step_frame" /\ hist.frames = 1 /\ TestCartridge) =>
           /\ raised = "none"
           /\ cpu.halted
           /\ cpu.A = 66

\* C32 (as amended): the test cartridge has a 16384-byte PRG buffer that is
\* A9 42 EA 00, then 0xEA filler, with the reset vector 00 80 at offsets 0x3FFC
\* and 0x3FFD and filler in the final two bytes; after create_test_rom the bus
\* returns 0x00 at $FFFC and 0x80 at $FFFD and PC is $8000, and the first
\* step_frame ends with the CPU halted and A = 0x42.
TestRom ==
    /\ TestRomRuns
    /\ op.name = "create_test_rom" =>
           \A i \in 0..(PRG_CHUNK - 1) :
               BlobIndex(cart.prg_rom, i) = ProgramFillerVector(i, VEC_AT)

\* the first frame of the test cartridge has run
TestRomSeen ==
    /\ op.name = "step_frame" /\ hist.frames = 1 /\ TestCartridge
    /\ hist.loads = 0 /\ hist.resets = 0
    /\ cpu.halted /\ cpu.A = 66

\* C32 as stated: the same with the reset vector in the final two bytes of the
\* buffer, offsets 0x3FFE and 0x3FFF
TestRomVectorLast ==
    /\ TestRomRuns
    /\ op.name = "create_test_rom" =>
           \A i \in 0..(PRG_CHUNK - 1) :
               BlobIndex(cart.prg_rom, i) = ProgramFillerVector(i, PRG_CHUNK - 2)

-----------------------------------------------------------------------------
(* C33 *)

\* what a call of nes.ppu.render_frame leaves alone
RenderKeeps ==
    /\ ppu'.cycle = ppu.cycle
    /\ ppu'.scanline = ppu.scanline
    /\ tick' = tick
    /\ cpu' = cpu
    /\ bus' = bus
    /\ cart' = cart

\* C33 (as amended): apart from the pixels of the frame buffer it returns and
\* the frame counter, which it increments by one, a call of PPU.render_frame
\* changes no state: dot, scanline, tick, CPU and bus are unchanged.
RenderCounts ==
    [][op'.name = "render_frame" =>
           (RenderKeeps /\ ppu'.frame_count = ppu.frame_count + 1)]_vars

\* two calls of render_frame were made after the picture unit had stepped
RenderCountsSeen ==
    /\ op.name = "render_frame"
    /\ ppu.frame_count = 3
    /\ tick = 1
    /\ ppu.cycle > 0

\* C33 as stated: the frame counter is unchanged too
RenderPure ==
    [][op'.name = "render_frame" =>
           (RenderKeeps /\ ppu'.frame_count = ppu.frame_count)]_vars

-----------------------------------------------------------------------------
(* C34 *)

\* C34: in every state of a CPU, from construction through every reset and
\* step, SP is 0xFD and P is 0x24, 0x26 (Zero) or 0xA4 (Negative): no
\* instruction touches SP or a flag other than Zero and Negative, and the two
\* are never set together.
StackAndFlags ==
    cpu # None =>
        /\ cpu.SP = RESET_SP
        /\ cpu.P \in {RESET_P, RESET_P + FLAG_Z, RESET_P + FLAG_N}

\* BRK halted the CPU with Zero set, after a step that had set Negative
StackAndFlagsSeen ==
    /\ op.name = "cpu.step"
    /\ cpu.halted /\ ~pre.halted
    /\ cpu.P = RESET_P + FLAG_Z
    /\ cpu.X = 0 /\ cpu.A = 254

-----------------------------------------------------------------------------
(* C35 *)

\* the register a store opcode writes
StoreReg(o) ==
    CASE o = OP_STA -> "A"
      [] o = OP_STX -> "X"
      [] o = OP_STY -> "Y"

\* every byte of a bytearray outside the first n is 0
ZeroFrom(arr, n) ==
    /\ arr.fill = 0
    /\ \A k \in DOMAIN arr.pts : k < n \/ arr.pts[k] = 0

\* the bytes of a and b are the same except at index i
SameExceptAt(a, b, i) ==
    /\ a.len = b.len
    /\ \A k \in ((DOMAIN a.pts) \cup (DOMAIN b.pts)) \ {i} : BlobIndex(a, k) = BlobIndex(b, k)

OnlyZeroPageWritten ==
    bus # None =>
        /\ ZeroFrom(bus.cpu_ram, BYTE)
        /\ ZeroFrom(bus.ppu_regs, 0)
        /\ ZeroFrom(bus.apu_regs, 0)

StoreStep ==
    (op'.name = "cpu.step" /\ ~cpu.halted /\ raised' = "none"
     /\ Fetched \in {OP_STA, OP_STX, OP_STY}) =>
        \E addr \in {cpu_read(bus, (cpu.PC + 1) % ADDR_SPACE)} :
            /\ BlobIndex(bus'.cpu_ram, addr) = cpu[StoreReg(Fetched)]
            /\ SameExceptAt(bus'.cpu_ram, bus.cpu_ram, addr)
            /\ bus'.ppu_regs = bus.ppu_regs
            /\ bus'.apu_regs = bus.apu_regs
            /\ cpu'.PC = (cpu.PC + 2) % ADDR_SPACE
            /\ <<cpu'.A, cpu'.X, cpu'.Y, cpu'.SP, cpu'.P, cpu'.halted>>
                   = <<cpu.A, cpu.X, cpu.Y, cpu.SP, cpu.P, cpu.halted>>

\* C35: STA/STX/STY zp write A/X/Y to the RAM byte at the one-byte operand
\* address, advance PC by 2 and change no register or flag; after any sequence
\* of load, reset and step_frame (and cpu.step) only cpu_ram[0x00..0xFF] can be
\* non-zero: cpu_ram[0x100..0x7FF] and every PPU and APU register are 0.
ZeroPageStores == []OnlyZeroPageWritten /\ [][StoreStep]_vars

\* a frame stored X = $FF at $11, and the console was reset afterwards
ZeroPageStoresSeen ==
    /\ bus # None
    /\ op.name = "reset"
    /\ BlobIndex(bus.cpu_ram, 17) = 255

-----------------------------------------------------------------------------
(* C36 *)

\* the word in the two bytes after the opcode at c.PC, low byte first
JmpTarget(c, b) ==
    cpu_read(b, (c.PC + 2) % ADDR_SPACE) * BYTE + cpu_read(b, (c.PC + 1) % ADDR_SPACE)

\* the CPU c is about to execute a JMP to the address of that JMP
SelfJump(c, b) ==
    /\ ~c.halted
    /\ cpu_read(b, c.PC) = OP_JMP
    /\ JmpTarget(c, b) = c.PC

\* the state of the CPU apart from the two cycle counters
Registers(c) == <<c.A, c.X, c.Y, c.SP, c.P, c.PC, c.halted>>

JumpStep ==
    (op'.name = "cpu.step" /\ ~cpu.halted /\ Fetched = OP_JMP) =>
        /\ raised' = "none"
        /\ cpu'.PC = JmpTarget(cpu, bus)
        /\ <<cpu'.A, cpu'.X, cpu'.Y, cpu'.SP, cpu'.P, cpu'.halted>>
               = <<cpu.A, cpu.X, cpu.Y, cpu.SP, cpu.P, cpu.halted>>
        /\ bus' = bus
        /\ SelfJump(cpu, bus) => (Registers(cpu') = Registers(cpu) /\ SelfJump(cpu', bus'))

\* C36: JMP abs sets PC to the little-endian word in the two bytes after the
\* opcode, the second of them read at an address that wraps at 65536, and
\* changes no register, flag or memory byte; after a JMP to its own address the
\* CPU is in the same state apart from the cycle counters, about to execute the
\* same JMP, so every later step does the same.
JumpAbsolute == [][JumpStep]_vars

\* the JMP at $FFFE, whose high byte is read at $0000, jumped to $FFFE twice
JumpAbsoluteSeen ==
    /\ op.name = "cpu.step" /\ hist.steps = 2
    /\ cpu.PC = 65534
    /\ SelfJump(cpu, bus)
    /\ cpu.cycles = RESET_CYCLES + 6

-----------------------------------------------------------------------------
(* C37 *)

\* C37: Console.reset leaves the contents of cpu_ram, the PPU and APU
\* registers, the cartridge, and the picture unit's dot and scanline counters
\* as they were; it changes only the CPU, tick and the frame counter.
ResetKeepsMemory ==
    [][op'.name = "reset" =>
           /\ bus'.cpu_ram = bus.cpu_ram
           /\ bus'.ppu_regs = bus.ppu_regs
           /\ bus'.apu_regs = bus.apu_regs
           /\ bus'.cart = bus.cart
           /\ cart' = cart
           /\ ppu'.cycle = ppu.cycle
           /\ ppu'.scanline = ppu.scanline
           /\ ppu'.frame = ppu.frame]_vars

\* the console was reset with a byte of the program in the RAM, bytes of the
\* host in a PPU and an APU register, and the picture unit past dot 0
ResetKeepsMemorySeen ==
    /\ op.name = "reset"
    /\ BlobIndex(bus.cpu_ram, 17) = 255
    /\ BlobIndex(bus.ppu_regs, 1) = 66
    /\ BlobIndex(bus.apu_regs, 23) = 66
    /\ ppu.cycle = 15
    /\ cpu.cycles = RESET_CYCLES /\ tick = 0 /\ ppu.frame_count = 0

-----------------------------------------------------------------------------
(* C38 *)

\* the emulation threads that are inside step_frame
InFrame(g) == {i \in DOMAIN g.threads : g.threads[i].at = "frame"}

\* the handler that ran replaced or reset the objects of the console
ConsoleMutated ==
    \/ op'.name = "reset_emulation"
    \/ (op'.name = "load_rom" /\ ret' = TRUE)

\* the loop of a frame finds cpu.cycles no lower than the value its
\* target_cycles was computed from
CyclesNotRewound ==
    \A i \in InFrame(gui) : cpu.cycles >= gui.threads[i].target - FRAME_CYCLES

\* C38: in NESEmulatorGUI no reset or load of the console runs on the Tk thread
\* while an emulation thread is inside step_frame, so the loop of a frame never
\* finds cpu.cycles reset after its target_cycles was computed.
HostExcludes == []CyclesNotRewound /\ [][ConsoleMutated => InFrame(gui) = {}]_vars

-----------------------------------------------------------------------------
(* C39 *)

\* C39: at most one thread runs emulation_loop at any time, for every
\* interleaving of start_emulation, pause_emulation and stop_emulation_func,
\* a start after a stop whose join timed out included.
SingleEmulationThread == Cardinality(Alive(gui)) <= 1

-----------------------------------------------------------------------------
(* C40 *)

\* C40: in the stub frontend, whenever is_running is true and is_paused is
\* false a thread of emulation_loop is alive, so that Run after Pause resumes
\* the stepping of frames.
RunResumes == (gui.is_running /\ ~gui.is_paused) => Looping(gui) # {}


=============================================================================
